---- MODULE Spec2Model ----
(***************************************************************************)
(* The pneumonia mortality pipeline: the probabilistic SIM x SIH record    *)
(* linkage (src/pneumonia_analysis/linkage.py), the municipal mortality    *)
(* rates of both pipeline classes and the field normalisers of             *)
(* src/pneumonia_analysis/utils.py and src/pipeline.py, with the pandas    *)
(* and recordlinkage calls they make modelled by what those calls do.      *)
(*                                                                         *)
(* Numbers: similarity scores are kept in thousandths (1000 = 1.0), ages   *)
(* in tenths of a year (705 = 70.5 years), dates in whole days since       *)
(* 1970-01-01.                                                             *)
(***************************************************************************)
EXTENDS Integers, Sequences, FiniteSets, TLC

VARIABLES
    sim_data,         \* the standardized death table handed to link_sim_sih
    sih_data,         \* the standardized discharge table handed to link_sim_sih
    pc,               \* "start" -> "linked" -> "measured"
    A,                \* the prepared death table (local A of link_sim_sih)
    B,                \* the prepared discharge table (local B of link_sim_sih)
    candidate_pairs,  \* the pairs produced by blocking, in generation order
    features,         \* the comparison vectors, one per candidate pair
    classifier,       \* "not_run", "raised" or "fitted"
    matches,          \* the pairs fit_predict returned as matches
    outcome,          \* how link_sim_sih ended: "pending", "returned" or the exception
    linkage_result,   \* the rows of the table link_sim_sih returned
    metrics,          \* what calculate_linkage_metrics returned, or NoMetrics
    pipeline,         \* "package" (PneumoniaAnalysisPipeline) or "real"
                      \* (RealPneumoniaAnalysisPipeline)
    population_data,  \* the population table of the pipeline object
    mortality_rates,  \* the rows of the table calculate_mortality_rates returned
    rates_outcome,    \* how calculate_mortality_rates ended
    arg,              \* the raw field value handed to a field normaliser
    fn,               \* the normaliser that was applied to arg, or "none"
    ret,              \* what the normaliser returned for arg
    frames,           \* the list `frames` of the loader whose batch loop runs
    batch,            \* the position, from 1, of the next batch of that loop
    death_profiles    \* the tables get_death_profiles returned, or NoProfiles

vars == <<sim_data, sih_data, pc, A, B, candidate_pairs, features, classifier,
          matches, outcome, linkage_result, metrics, pipeline, population_data,
          mortality_rates, rates_outcome, arg, fn, ret, frames, batch,
          death_profiles>>

----------------------------------------------------------------------------
(* Bounds of the model. *)

\* Largest number of rows of the death table.
MaxSim == 2

\* Largest number of rows of the discharge table.
MaxSih == 2

----------------------------------------------------------------------------
(* Missing values. *)

\* pd.NA / None in a text column.
NA == "<NA>"

\* NaN in a numeric column (ages and years are never negative).
NaN == -1

\* NaT in a datetime64[ns] column (the dates of the model are days >= 0).
NaT == -2

\* Series.view("int64") reads NaT as the smallest int64, -2^63 nanoseconds;
\* floor-divided by the 86_400_000_000_000 ns of a day that is -106752.
NaTDays == -106752

\* A score of 1.0, in thousandths.
One == 1000

\* No field normaliser was called: no argument, no return value.
NoArg == [kind |-> "none"]

NoRet == [kind |-> "none"]

\* death_profiles before get_death_profiles has run (None).
NoProfiles == [kind |-> "none"]

----------------------------------------------------------------------------
(* Input tables. *)

DeathRow(m, y, d, s, a, c) ==
    [mun6 |-> m, ano |-> y, data_obito |-> d, sexo |-> s, idade_anos |-> a, cid3 |-> c]

DischargeRow(m, y, d, s, a, c) ==
    [mun6 |-> m, ano |-> y, data_saida |-> d, sexo |-> s, idade_anos |-> a, cid3 |-> c]

\* Death records the tables are drawn from.  19066 is 2022-03-15,
\* 19083 is 2022-04-01.
SimRows ==
    { DeathRow("310620", 2022, 19066, "M", 700, "J18"),
      DeathRow("310620", 2022, NaT,   "M", NaN, "J18"),
      DeathRow(NA,       2022, 19066, "M", 700, "J18"),
      DeathRow("310620", NaN,  19066, "M", 700, "J18"),
      DeathRow("355030", 2022, 19066, "F", 705, "J15"),
      DeathRow("310620", 2022, 19083, "M", 725, "J12") }

\* Discharge records the tables are drawn from.  19065 is 2022-03-14,
\* 19082 is 2022-03-31.
SihRows ==
    { DischargeRow("310620", 2022, 19065, "M", 710, "J18"),
      DischargeRow("310620", 2022, NaT,   "M", NaN, "J18"),
      DischargeRow(NA,       2022, 19066, "M", 700, "J18"),
      DischargeRow("310620", NaN,  19065, "M", 710, "J18"),
      DischargeRow("310620", 2022, 19066, "F", 700, "J18"),
      DischargeRow("310620", 2022, 19082, "M", 690, "J15") }

SeqsUpTo(S, n) == UNION { [1..k -> S] : k \in 0..n }

\* A table is its rows and the dtype of its date column.  A table with rows
\* was assembled from parsed dates (datetime64[ns]); an empty one is either
\* the pd.DataFrame(columns=[...]) the loaders return when no batch produced
\* data (object columns) or an emptied datetime64[ns] table.
Tables(Rows, n) ==
    { [rows |-> r, date_dtype |-> t] :
        r \in SeqsUpTo(Rows, n), t \in {"datetime64[ns]", "object"} }

EmptyLoaderTable == [rows |-> <<>>, date_dtype |-> "object"]

WellFormed(t) == t.rows # <<>> => t.date_dtype = "datetime64[ns]"

----------------------------------------------------------------------------
(* _prepare_data_for_linkage *)

Pad2(n) == IF n < 10 THEN "0" \o ToString(n) ELSE ToString(n)

\* The calendar year and month of a day number (proleptic Gregorian).
YearMonthOfDay(days) ==
    LET z   == days + 719468
        era == z \div 146097
        doe == z - era * 146097
        yoe == (doe - doe \div 1460 + doe \div 36524 - doe \div 146096) \div 365
        doy == doe - (365 * yoe + yoe \div 4 - yoe \div 100)
        mp  == (5 * doy + 2) \div 153
        m   == IF mp < 10 THEN mp + 3 ELSE mp - 9
        y   == yoe + era * 400 + (IF m <= 2 THEN 1 ELSE 0)
    IN  <<y, m>>

\* Series.dt.to_period("M").astype(str): "2022-03" for a date, the text "NaT"
\* for a missing one.
AnoMes(date) ==
    IF date = NaT THEN "NaT"
    ELSE LET ym == YearMonthOfDay(date) IN ToString(ym[1]) \o "-" \o Pad2(ym[2])

\* Series.round(0) on ages: to the nearest whole year, halves to the even
\* year; NaN stays NaN.  Ages are in tenths of a year, the result in years.
AgeRound(idade_anos) ==
    IF idade_anos = NaN THEN NaN
    ELSE LET q == idade_anos \div 10
             r == idade_anos % 10
         IN  IF r < 5 THEN q
             ELSE IF r > 5 THEN q + 1
             ELSE IF q % 2 = 0 THEN q ELSE q + 1

\* Series.view("int64") // 86_400_000_000_000: whole days since the epoch; a
\* missing date is read as the integer NaT is stored as.
Ts(date) == IF date = NaT THEN NaTDays ELSE date

\* KeptPositions with the year left out of the dropna subset.
KeptPositionsMunOnly(rows) ==
    SelectSeq([k \in 1..Len(rows) |-> k], LAMBDA k : rows[k].mun6 # NA)

\* DataFrame.dropna(subset=["mun6", "ano"]) keeps the index labels of the rows
\* it keeps: the positions, from 0, of the rows in the table.
KeptPositions(rows) ==
    SelectSeq([k \in 1..Len(rows) |-> k],
              LAMBDA k : rows[k].mun6 # NA /\ rows[k].ano # NaN)

PreparedRow(idx, row, date) ==
    [idx |-> idx, mun6 |-> row.mun6, ano |-> row.ano, ano_mes |-> AnoMes(date),
     sexo |-> row.sexo, age_round |-> AgeRound(row.idade_anos),
     cid3 |-> row.cid3, ts |-> Ts(date)]

PrepareSim(rows) ==
    LET kept == KeptPositions(rows)
    IN  [k \in 1..Len(kept) |->
            PreparedRow(kept[k] - 1, rows[kept[k]], rows[kept[k]].data_obito)]

PrepareSih(rows) ==
    LET kept == KeptPositions(rows)
    IN  [k \in 1..Len(kept) |->
            PreparedRow(kept[k] - 1, rows[kept[k]], rows[kept[k]].data_saida)]

\* The .dt accessor exists only on datetime-like columns: on the object column
\* of an empty loader table it raises AttributeError.
DtAccessorRaises(table) == table.date_dtype # "datetime64[ns]"

\* A is built before B, so the death table's fault is met first.
_prepare_data_for_linkage(sim, sih) ==
    IF DtAccessorRaises(sim) \/ DtAccessorRaises(sih)
    THEN [raised |-> "AttributeError", A |-> <<>>, B |-> <<>>]
    ELSE [raised |-> "none", A |-> PrepareSim(sim.rows), B |-> PrepareSih(sih.rows)]

----------------------------------------------------------------------------
(* _create_candidate_pairs *)

\* BlockKey with the sex left out of the blocking keys.
BlockKeyNoSex(r) == <<r.mun6, r.ano_mes>>

\* The blocking key of a prepared row: left_on = right_on =
\* ["mun6", "ano_mes", "sexo"].
BlockKey(r) == <<r.mun6, r.ano_mes, r.sexo>>

\* No blocking key of the row is missing ("NaT" is a text, not a missing
\* value; the standardized sex is always one of M, F, I).
HasBlockKey(r) == r.mun6 # NA

\* recordlinkage's Block drops the rows with a missing blocking key and
\* inner-merges the two tables on the keys: every (left, right) combination
\* with equal keys, in the order of the left rows and, within one left row, of
\* the right rows.  A pair is the two index labels.
_create_candidate_pairs(a, b) ==
    LET n     == Len(a) * Len(b)
        left(k)  == a[((k - 1) \div Len(b)) + 1]
        right(k) == b[((k - 1) % Len(b)) + 1]
        hits  == SelectSeq([k \in 1..n |-> k],
                           LAMBDA k : /\ HasBlockKey(left(k))
                                      /\ HasBlockKey(right(k))
                                      /\ BlockKey(left(k)) = BlockKey(right(k)))
    IN  [k \in 1..Len(hits) |-> <<left(hits[k]).idx, right(hits[k]).idx>>]

----------------------------------------------------------------------------
(* _calculate_comparison_features *)

\* recordlinkage's "gauss" similarity 2^(-(d/scale)^2) of a distance d, in
\* thousandths, for the two scales the comparison plan uses.
GaussScale2 == <<1000, 841, 500, 210, 62, 13, 2>>
GaussScale3 == <<1000, 926, 735, 500, 292, 146, 62, 23, 7, 2>>

Abs(x) == IF x < 0 THEN -x ELSE x

GaussSim(d, scale) ==
    LET table == IF scale = 2 THEN GaussScale2 ELSE GaussScale3
    IN  IF d < Len(table) THEN table[d + 1] ELSE 0

\* The row of a prepared table with the given index label.
RowAt(table, idx) == table[CHOOSE k \in 1..Len(table) : table[k].idx = idx]

\* comp.exact("cid3", "cid3"): 1 when the codes are equal, 0 otherwise and
\* when one is missing.
ExactCid3(a, b) ==
    IF a.cid3 # NA /\ b.cid3 # NA /\ a.cid3 = b.cid3 THEN One ELSE 0

\* comp.numeric("age_round", ..., method="gauss", scale=2): a NaN on either
\* side makes the similarity NaN, which missing_value=0 replaces.
AgeClose(a, b) ==
    IF a.age_round = NaN \/ b.age_round = NaN THEN 0
    ELSE GaussSim(Abs(a.age_round - b.age_round), 2)

\* comp.numeric("ts", ..., method="gauss", scale=3): ts is an int64 column, so
\* it holds no NaN and the fill for missing values never applies.
DateClose(a, b) == GaussSim(Abs(a.ts - b.ts), 3)

CompareRows(a, b) ==
    [cid3_eq |-> ExactCid3(a, b), age_close |-> AgeClose(a, b),
     date_close |-> DateClose(a, b)]

\* comp.compute(candidate_pairs, A, B): one vector per pair, in pair order.
_calculate_comparison_features(pairs, a, b) ==
    [k \in 1..Len(pairs) |-> CompareRows(RowAt(a, pairs[k][1]), RowAt(b, pairs[k][2]))]

\* features.sum(axis=1) of one vector.
SumScore(f) == f.cid3_eq + f.age_close + f.date_close

----------------------------------------------------------------------------
(* _classify_pairs *)

\* clf.fit_predict(features) is called outside any try block (the try of
\* _classify_pairs guards only the construction of the classifier).  The
\* fitted model is the library's: either fitting fails and the exception
\* leaves _classify_pairs, or the call returns the pandas.MultiIndex of the
\* pairs predicted to match, some sub-index of the candidate pairs.
_classify_pairs(f) ==
    {[raised |-> TRUE, matched |-> {}]} \cup
    {[raised |-> FALSE, matched |-> m] : m \in SUBSET (1..Len(f))}

\* The sub-index of the pairs at the positions in `matched`, in pair order.
SubIndex(pairs, matched) ==
    LET pos == SelectSeq([k \in 1..Len(pairs) |-> k], LAMBDA k : k \in matched)
    IN  [k \in 1..Len(pos) |-> pairs[pos[k]]]

----------------------------------------------------------------------------
(* _build_linkage_result *)

\* Line 165 calls matches.to_frame(index=False, name="match") on the
\* MultiIndex of matches.  MultiIndex.to_frame takes a list of column names,
\* one per level, and raises TypeError for a name that is not list-like; the
\* join, score and sort of lines 166-185 are never reached.
_build_linkage_result(m, a, b, f) ==
    [raised |-> "TypeError", rows |-> <<>>]

----------------------------------------------------------------------------
(* link_sim_sih *)

NoRun == [A |-> <<>>, B |-> <<>>, candidate_pairs |-> <<>>, features |-> <<>>,
          classifier |-> "not_run", matches |-> <<>>,
          outcome |-> "pending", linkage_result |-> <<>>]

\* The whole of link_sim_sih for one outcome c of the classifier.
LinkRun(sim, sih, c) ==
    LET prep  == _prepare_data_for_linkage(sim, sih)
        pairs == _create_candidate_pairs(prep.A, prep.B)
        feats == _calculate_comparison_features(pairs, prep.A, prep.B)
        m     == SubIndex(pairs, c.matched)
        built == _build_linkage_result(m, prep.A, prep.B, feats)
    IN  IF prep.raised # "none"
        THEN [NoRun EXCEPT !.outcome = prep.raised]
        ELSE IF prep.A = <<>> \/ prep.B = <<>>
        THEN [NoRun EXCEPT !.A = prep.A, !.B = prep.B, !.outcome = "returned"]
        ELSE IF pairs = <<>>
        THEN [NoRun EXCEPT !.A = prep.A, !.B = prep.B, !.outcome = "returned"]
        ELSE IF c.raised
        THEN [NoRun EXCEPT !.A = prep.A, !.B = prep.B, !.candidate_pairs = pairs,
                           !.features = feats, !.classifier = "raised",
                           !.outcome = "ClassifierError"]
        ELSE [NoRun EXCEPT !.A = prep.A, !.B = prep.B, !.candidate_pairs = pairs,
                           !.features = feats, !.classifier = "fitted",
                           !.matches = m,
                           !.outcome = IF built.raised = "none" THEN "returned"
                                       ELSE built.raised,
                           !.linkage_result = built.rows]

\* Every way link_sim_sih can end on the two tables.
LinkRuns(sim, sih) ==
    LET prep  == _prepare_data_for_linkage(sim, sih)
        pairs == _create_candidate_pairs(prep.A, prep.B)
        feats == _calculate_comparison_features(pairs, prep.A, prep.B)
    IN  {LinkRun(sim, sih, c) : c \in _classify_pairs(feats)}

----------------------------------------------------------------------------
(* calculate_linkage_metrics *)

NoMetrics == [total_pairs |-> -1, matched_pairs |-> -1, match_rate |-> -1,
              avg_score |-> -1]

RECURSIVE SumScores(_)
SumScores(rows) ==
    IF rows = <<>> THEN 0 ELSE Head(rows).score + SumScores(Tail(rows))

\* calculate_linkage_metrics without the early return and the guards on an
\* empty table: the mean of an empty column is NaN.
calculate_linkage_metrics_unguarded(result) ==
    [total_pairs   |-> Len(result),
     matched_pairs |-> Len(SelectSeq(result, LAMBDA r : r.match)),
     match_rate    |-> IF Len(result) > 0
                       THEN (Len(SelectSeq(result, LAMBDA r : r.match)) * One)
                                \div Len(result)
                       ELSE NaN,
     avg_score     |-> IF Len(result) > 0 THEN SumScores(result) \div Len(result)
                       ELSE NaN]

\* match_rate and avg_score in thousandths.
calculate_linkage_metrics(result) ==
    IF result = <<>>
    THEN [total_pairs |-> 0, matched_pairs |-> 0, match_rate |-> 0, avg_score |-> 0]
    ELSE LET total_pairs   == Len(result)
             matched_pairs == Len(SelectSeq(result, LAMBDA r : r.match))
         IN  [total_pairs   |-> total_pairs,
              matched_pairs |-> matched_pairs,
              match_rate    |-> IF total_pairs > 0
                                THEN (matched_pairs * One) \div total_pairs ELSE 0,
              avg_score     |-> SumScores(result) \div total_pairs]

----------------------------------------------------------------------------
(* The state machine: two tables are handed to link_sim_sih, and the metrics *)
(* of the table it returned are computed.                                   *)

Init ==
    /\ sim_data \in { t \in Tables(SimRows, MaxSim) : WellFormed(t) }
    /\ sih_data \in { t \in Tables(SihRows, MaxSih) : WellFormed(t) }
    /\ pc = "start"
    /\ A = NoRun.A
    /\ B = NoRun.B
    /\ candidate_pairs = NoRun.candidate_pairs
    /\ features = NoRun.features
    /\ classifier = NoRun.classifier
    /\ matches = NoRun.matches
    /\ outcome = NoRun.outcome
    /\ linkage_result = NoRun.linkage_result
    /\ metrics = NoMetrics
    /\ pipeline = "package"
    /\ population_data = <<>>
    /\ mortality_rates = <<>>
    /\ rates_outcome = "pending"
    /\ frames = <<>>
    /\ batch = 0
    /\ death_profiles = NoProfiles
    /\ arg = NoArg
    /\ fn = "none"
    /\ ret = NoRet

\* An input table after a preparation that drops the rows without keys in
\* the table itself (dropna(inplace=True)).
InputPreparedInPlace(table) ==
    [table EXCEPT !.rows = SelectSeq(table.rows,
                               LAMBDA r : r.mun6 # NA /\ r.ano # NaN)]

\* An input table after link_sim_sih.  _prepare_data_for_linkage builds A
\* and B with dropna(), assign(), a column selection and copy(), which all
\* return new tables, and the later steps work on A and B: the table handed
\* in keeps its rows, columns and values, also when the call raises.
InputAfterLinkage(table) == table

link_sim_sih ==
    /\ pc = "start"
    /\ sim_data' = InputAfterLinkage(sim_data)
    /\ sih_data' = InputAfterLinkage(sih_data)
    /\ \E run \in LinkRuns(sim_data, sih_data) :
              /\ A' = run.A
              /\ B' = run.B
              /\ candidate_pairs' = run.candidate_pairs
              /\ features' = run.features
              /\ classifier' = run.classifier
              /\ matches' = run.matches
              /\ outcome' = run.outcome
              /\ linkage_result' = run.linkage_result
    /\ pc' = "linked"
    /\ UNCHANGED <<metrics, pipeline, population_data,
                   mortality_rates, rates_outcome, arg, fn, ret, frames, batch,
                   death_profiles>>

CalculateMetrics ==
    /\ pc = "linked"
    /\ outcome = "returned"
    /\ metrics' = calculate_linkage_metrics(linkage_result)
    /\ pc' = "measured"
    /\ UNCHANGED <<sim_data, sih_data, A, B, candidate_pairs, features, classifier,
                   matches, outcome, linkage_result, pipeline, population_data,
                   mortality_rates, rates_outcome, arg, fn, ret, frames, batch,
                   death_profiles>>

Next == link_sim_sih \/ CalculateMetrics

Spec == Init /\ [][Next]_vars

----------------------------------------------------------------------------
(* Properties of the linkage. *)

Count(x, seq) == Cardinality({k \in DOMAIN seq : seq[k] = x})

\* link_sim_sih has ended and reached the blocking step.
BlockingRan == pc # "start" /\ A # <<>> /\ B # <<>>

\* The row enters blocking: neither its municipality nor its year is missing.
Enters(row) == row.mun6 # NA /\ row.ano # NaN

\* The two rows have the same municipality code, the same year-month label of
\* their date field and the same sex.
ShareKeys(d, h) ==
    /\ d.mun6 # NA
    /\ d.mun6 = h.mun6
    /\ AnoMes(d.data_obito) = AnoMes(h.data_saida)
    /\ d.sexo = h.sexo

\* C1 as stated: for any two tables the candidate pairs hold (d, h) exactly
\* once when d and h share municipality, year-month and sex, and not at all
\* when they differ in one of them.
C1_AnyRowsSharingKeysPairedOnce ==
    BlockingRan =>
        \A i \in 1..Len(sim_data.rows), j \in 1..Len(sih_data.rows) :
            Count(<<i - 1, j - 1>>, candidate_pairs) =
                IF ShareKeys(sim_data.rows[i], sih_data.rows[j]) THEN 1 ELSE 0

\* C1 amended: the candidate pairs hold (d, h) exactly once when neither row
\* lacks its municipality or its year and the two share municipality,
\* year-month label and sex, and hold no other pair.
C1_BlockingCorrect ==
    BlockingRan =>
        /\ \A i \in 1..Len(sim_data.rows), j \in 1..Len(sih_data.rows) :
              Count(<<i - 1, j - 1>>, candidate_pairs) =
                  IF /\ Enters(sim_data.rows[i])
                     /\ Enters(sih_data.rows[j])
                     /\ ShareKeys(sim_data.rows[i], sih_data.rows[j])
                  THEN 1 ELSE 0
        /\ \A k \in DOMAIN candidate_pairs :
              /\ candidate_pairs[k][1] \in 0..(Len(sim_data.rows) - 1)
              /\ candidate_pairs[k][2] \in 0..(Len(sih_data.rows) - 1)

\* Blocking produced a pair and left unpaired two rows that entered blocking
\* with different keys.
C1_Witness ==
    /\ BlockingRan
    /\ candidate_pairs # <<>>
    /\ \E i \in 1..Len(sim_data.rows), j \in 1..Len(sih_data.rows) :
          /\ Enters(sim_data.rows[i])
          /\ Enters(sih_data.rows[j])
          /\ ~ShareKeys(sim_data.rows[i], sih_data.rows[j])
          /\ Count(<<i - 1, j - 1>>, candidate_pairs) = 0

\* C2: a row whose municipality or year is missing is in no candidate pair
\* and in no row of the linkage result.
C2_MissingKeyRowsNeverPaired ==
    pc # "start" =>
        /\ \A k \in DOMAIN candidate_pairs :
              /\ Enters(sim_data.rows[candidate_pairs[k][1] + 1])
              /\ Enters(sih_data.rows[candidate_pairs[k][2] + 1])
        /\ \A k \in DOMAIN linkage_result :
              /\ Enters(sim_data.rows[linkage_result[k].idx_sim + 1])
              /\ Enters(sih_data.rows[linkage_result[k].idx_sih + 1])

\* Blocking produced pairs from tables that also hold a row without
\* municipality or year on each side.
C2_Witness ==
    /\ BlockingRan
    /\ candidate_pairs # <<>>
    /\ \E i \in DOMAIN sim_data.rows : ~Enters(sim_data.rows[i])
    /\ \E j \in DOMAIN sih_data.rows : ~Enters(sih_data.rows[j])

\* C3: in every candidate pair a component score with a missing input (a date
\* for the date score, an age for the age score) contributes 0, so a pair
\* with a missing date never has a date score of 1.0.
C3_MissingInputContributesZero ==
    pc # "start" =>
        \A k \in DOMAIN candidate_pairs :
            LET d == sim_data.rows[candidate_pairs[k][1] + 1]
                h == sih_data.rows[candidate_pairs[k][2] + 1]
            IN  /\ (d.data_obito = NaT \/ h.data_saida = NaT)
                       => features[k].date_close = 0
                /\ (d.idade_anos = NaN \/ h.idade_anos = NaN)
                       => features[k].age_close = 0

\* C4: when the classifier cannot run, link_sim_sih still returns a result in
\* which each candidate pair is a match iff its three scores sum to >= 2.0.
C4_ThresholdFallback ==
    classifier = "raised" =>
        /\ outcome = "returned"
        /\ Len(linkage_result) = Len(candidate_pairs)
        /\ \A k \in DOMAIN linkage_result :
              \E n \in DOMAIN candidate_pairs :
                  /\ candidate_pairs[n] =
                        <<linkage_result[k].idx_sim, linkage_result[k].idx_sih>>
                  /\ linkage_result[k].match = (SumScore(features[n]) >= 2 * One)

\* C5: with an empty death table or an empty discharge table link_sim_sih
\* returns an empty result and raises nothing, and runs neither blocking nor
\* comparison nor classification.
C5_EmptyInputReturnsEmpty ==
    (pc # "start" /\ (sim_data.rows = <<>> \/ sih_data.rows = <<>>)) =>
        /\ outcome = "returned"
        /\ linkage_result = <<>>
        /\ candidate_pairs = <<>>
        /\ features = <<>>
        /\ classifier = "not_run"

\* C6: the result has one row per candidate pair, each with a boolean match
\* decision; no pair is in two rows and every row is a candidate pair.
C6_OneRowPerCandidatePair ==
    (pc # "start" /\ classifier = "fitted") =>
        /\ outcome = "returned"
        /\ Len(linkage_result) = Len(candidate_pairs)
        /\ \A n \in DOMAIN candidate_pairs :
              Cardinality({k \in DOMAIN linkage_result :
                  <<linkage_result[k].idx_sim, linkage_result[k].idx_sih>>
                      = candidate_pairs[n]}) = 1
        /\ \A k \in DOMAIN linkage_result : linkage_result[k].match \in BOOLEAN

\* C7: the metrics of the result of link_sim_sih count the candidate pairs,
\* count those with match = true, and give their ratio and the mean aggregate
\* score of all candidate pairs.
C7_MetricsOfLinkage ==
    (pc # "start" /\ classifier = "fitted") =>
        /\ outcome = "returned"
        /\ LET m == calculate_linkage_metrics(linkage_result)
               n == Len(candidate_pairs)
               s == [k \in DOMAIN features |-> [score |-> SumScore(features[k])]]
           IN  /\ m.total_pairs = n
               /\ m.matched_pairs = Len(matches)
               /\ m.match_rate = (Len(matches) * One) \div n
               /\ m.avg_score = SumScores(s) \div n

\* C8: the metrics of an empty linkage result are total_pairs = 0,
\* matched_pairs = 0, match_rate = 0.0 and avg_score = 0.0.
C8_MetricsOfEmptyResult ==
    (pc = "measured" /\ linkage_result = <<>>) =>
        metrics = [total_pairs |-> 0, matched_pairs |-> 0, match_rate |-> 0,
                   avg_score |-> 0]

\* The metrics of an empty result were computed.
C8_Witness == pc = "measured" /\ linkage_result = <<>> /\ metrics # NoMetrics

\* C9: every candidate pair has its result row, whose aggregate score is the
\* sum of the three scores of that pair and whose joined fields are those of
\* the two records at its indices.
C9_ScoreAndFieldsOfOwnPair ==
    (pc # "start" /\ classifier = "fitted") =>
        /\ outcome = "returned"
        /\ \A n \in DOMAIN candidate_pairs :
              \E k \in DOMAIN linkage_result :
                  /\ <<linkage_result[k].idx_sim, linkage_result[k].idx_sih>>
                        = candidate_pairs[n]
                  /\ linkage_result[k].score = SumScore(features[n])
                  /\ linkage_result[k].sim = RowAt(A, candidate_pairs[n][1])
                  /\ linkage_result[k].sih = RowAt(B, candidate_pairs[n][2])

\* C10: the result rows are in descending order of aggregate score, rows of
\* equal score in the order their pairs were generated.
C10_SortedStable ==
    (pc # "start" /\ classifier = "fitted") =>
        /\ outcome = "returned"
        /\ Len(linkage_result) = Len(candidate_pairs)
        /\ \A k \in 1..(Len(linkage_result) - 1) :
              LET Pos(r) == CHOOSE n \in DOMAIN candidate_pairs :
                                candidate_pairs[n] = <<r.idx_sim, r.idx_sih>>
              IN  \/ linkage_result[k].score > linkage_result[k + 1].score
                  \/ /\ linkage_result[k].score = linkage_result[k + 1].score
                     /\ Pos(linkage_result[k]) < Pos(linkage_result[k + 1])

\* C11: no deduplication by death record: when several discharge records
\* block-match one death record, link_sim_sih returns a result in which each
\* of those pairs has its own row, and each of them the classifier decided is
\* a match has match = true.
C11_NoDeduplicationByDeath ==
    (pc # "start" /\ classifier = "fitted") =>
        \A n \in DOMAIN candidate_pairs :
            (\E o \in DOMAIN candidate_pairs :
                 o # n /\ candidate_pairs[o][1] = candidate_pairs[n][1]) =>
                /\ outcome = "returned"
                /\ Cardinality({k \in DOMAIN linkage_result :
                       <<linkage_result[k].idx_sim, linkage_result[k].idx_sih>>
                           = candidate_pairs[n]}) = 1
                /\ \A k \in DOMAIN linkage_result :
                       (/\ <<linkage_result[k].idx_sim, linkage_result[k].idx_sih>>
                              = candidate_pairs[n]
                        /\ Count(candidate_pairs[n], matches) > 0)
                           => linkage_result[k].match = TRUE

\* The municipality codes of the rows of a table.
MunicipalityCodes(t) == {t.rows[i].mun6 : i \in DOMAIN t.rows} \ {NA}

\* C12: when no municipality code occurs in both tables, link_sim_sih
\* generates no candidate pair and returns an empty result without running
\* the classifier, and the metrics of that result are 0, 0, 0.0 and 0.0.
C12_DisjointMunicipalities ==
    (pc # "start"
        /\ MunicipalityCodes(sim_data) \cap MunicipalityCodes(sih_data) = {}) =>
        /\ outcome = "returned"
        /\ candidate_pairs = <<>>
        /\ linkage_result = <<>>
        /\ classifier = "not_run"
        /\ pc = "measured" =>
               metrics = [total_pairs |-> 0, matched_pairs |-> 0,
                          match_rate |-> 0, avg_score |-> 0]

\* C13: the death record (310620, 2022, M, 70, J18, 2022-03-15) and the
\* discharge record (310620, 2022, M, 71, J18, 2022-03-14) give one candidate
\* pair with diagnosis score 1.0, age score about 0.88, date score about
\* 0.95 and aggregate about 2.83 (each to two decimals), and the result
\* reports the pair as a match.
C13_WorkedExample ==
    (/\ pc # "start"
     /\ sim_data.rows = <<DeathRow("310620", 2022, 19066, "M", 700, "J18")>>
     /\ sih_data.rows = <<DischargeRow("310620", 2022, 19065, "M", 710, "J18")>>) =>
        /\ Len(candidate_pairs) = 1
        /\ features[1].cid3_eq = One
        /\ Abs(features[1].age_close - 880) <= 10
        /\ Abs(features[1].date_close - 950) <= 10
        /\ Abs(SumScore(features[1]) - 2830) <= 10
        /\ outcome = "returned"
        /\ Len(linkage_result) = 1
        /\ linkage_result[1].match = TRUE

----------------------------------------------------------------------------
(* calculate_mortality_rates of the two pipeline classes.  Rates are kept   *)
(* in thousandths of a death per 100,000 inhabitants, truncated.  A null in *)
(* a numeric column (NaN, or the None the real pipeline writes) is NaN.     *)

\* Largest number of rows of the population table.
MaxPop == 2

PopRow(m, y, p) == [mun6 |-> m, ano |-> y, pop |-> p]

\* Population entries the tables are drawn from.
PopRows ==
    { PopRow("310620", 2022, 50000),
      PopRow("310620", 2022, 0),
      PopRow("355030", 2022, 12000),
      PopRow("310620", 2021, 40000),
      PopRow("355030", 2022, NaN) }

\* The population table of a pipeline object.  load_population_data of the
\* package ends with .dropna(), so its table holds no null; the real pipeline
\* keeps the concatenated source frames as they are.
PopulationTables(pl) ==
    { t \in SeqsUpTo(PopRows, MaxPop) :
        pl = "package" => \A i \in DOMAIN t : t[i].pop # NaN }

\* The municipality codes of the model in ascending (text) order.
MunCodes == <<"310620", "355030">>

MunRank(m) == CHOOSE k \in DOMAIN MunCodes : MunCodes[k] = m

\* Order of the group keys <<mun6, ano>> of groupby(["mun6", "ano"]).
ByMunAno(a, b) ==
    \/ MunRank(a[1]) < MunRank(b[1])
    \/ a[1] = b[1] /\ a[2] < b[2]

\* Order of sort_values(["ano", "mun6"]) on keys <<mun6, ano>>.
ByAnoMun(a, b) ==
    \/ a[2] < b[2]
    \/ a[2] = b[2] /\ MunRank(a[1]) < MunRank(b[1])

\* The keys of the finite set K in ascending order of the columns `by`.
SortedSeq(K, by) ==
    CHOOSE q \in [1..Cardinality(K) -> K] :
        \A i, j \in 1..Cardinality(K) :
            i < j => IF by = <<"mun6", "ano">> THEN ByMunAno(q[i], q[j])
                     ELSE ByAnoMun(q[i], q[j])

RECURSIVE Flatten(_)
Flatten(ss) == IF ss = <<>> THEN <<>> ELSE Head(ss) \o Flatten(Tail(ss))

\* groupby(["mun6", "ano"], as_index=False).size(): one row per key, keys in
\* ascending order; groupby leaves out the rows with a null key (dropna=True).
GroupBySize(rows) ==
    LET keyed == {n \in DOMAIN rows : rows[n].mun6 # NA /\ rows[n].ano # NaN}
        ks    == SortedSeq({<<rows[n].mun6, rows[n].ano>> : n \in keyed},
                           <<"mun6", "ano">>)
    IN  [i \in DOMAIN ks |->
            [mun6 |-> ks[i][1], ano |-> ks[i][2],
             obitos_pneumonia |->
                 Cardinality({n \in keyed : <<rows[n].mun6, rows[n].ano>> = ks[i]})]]

\* An inner merge: a row of death counts without population entry is lost.
MergeInner(deaths, population) ==
    Flatten([i \in DOMAIN deaths |->
        LET hits == SelectSeq(population, LAMBDA p :
                        p.mun6 = deaths[i].mun6 /\ p.ano = deaths[i].ano)
        IN  [k \in DOMAIN hits |->
                [mun6 |-> deaths[i].mun6, ano |-> deaths[i].ano,
                 obitos_pneumonia |-> deaths[i].obitos_pneumonia,
                 pop |-> hits[k].pop]]])

\* deaths.merge(population, on=["mun6", "ano"], how="left"): the rows of
\* deaths in their order, each once per population entry of its key, and once
\* with a null population when the key has no entry.
MergeLeft(deaths, population) ==
    Flatten([i \in DOMAIN deaths |->
        LET hits == SelectSeq(population, LAMBDA p :
                        p.mun6 = deaths[i].mun6 /\ p.ano = deaths[i].ano)
        IN  IF hits = <<>>
            THEN <<[mun6 |-> deaths[i].mun6, ano |-> deaths[i].ano,
                    obitos_pneumonia |-> deaths[i].obitos_pneumonia,
                    pop |-> NaN]>>
            ELSE [k \in DOMAIN hits |->
                    [mun6 |-> deaths[i].mun6, ano |-> deaths[i].ano,
                     obitos_pneumonia |-> deaths[i].obitos_pneumonia,
                     pop |-> hits[k].pop]]])

\* sort_values(["ano", "mun6"]): a stable sort on the two columns.
SortValues(rows) ==
    LET ks == SortedSeq({<<rows[n].mun6, rows[n].ano>> : n \in DOMAIN rows},
                        <<"ano", "mun6">>)
    IN  Flatten([i \in DOMAIN ks |->
            SelectSeq(rows, LAMBDA r : <<r.mun6, r.ano>> = ks[i])])

\* deaths / population * 100_000 for a population that is neither null nor 0.
RatePer100k(deaths, population) == (deaths * 100000 * One) \div population

\* DataUtils.calculate_mortality_rate: 0.0 for a population of 0; a NaN
\* population is not equal to 0 and the division by it gives NaN.
calculate_mortality_rate(deaths, population) ==
    IF population = 0 THEN 0
    ELSE IF population = NaN THEN NaN
    ELSE RatePer100k(deaths, population)

WithRate(r, tx) ==
    [mun6 |-> r.mun6, ano |-> r.ano, obitos_pneumonia |-> r.obitos_pneumonia,
     pop |-> r.pop, tx_pneu_100k |-> tx]

\* PneumoniaAnalysisPipeline.calculate_mortality_rates.  On a table of death
\* counts without rows rates.apply(..., axis=1) returns an empty DataFrame
\* (of four columns) instead of a Series, and assigning it to the single
\* column tx_pneu_100k raises ValueError.
calculate_mortality_rates(sim, population) ==
    LET deaths == GroupBySize(sim.rows)
        rates  == MergeLeft(deaths, population)
    IN  IF rates = <<>>
        THEN [raised |-> "ValueError", rows |-> <<>>]
        ELSE [raised |-> "none",
              rows |-> SortValues([i \in DOMAIN rates |->
                          WithRate(rates[i],
                              calculate_mortality_rate(rates[i].obitos_pneumonia,
                                                       rates[i].pop))])]

\* RealPneumoniaAnalysisPipeline.calculate_mortality_rates: without a
\* population table every row gets a null population and a null rate;
\* otherwise the rate is set where the population is not null and > 0.
Real_calculate_mortality_rates(sim, population) ==
    LET deaths == GroupBySize(sim.rows)
        rates  == MergeLeft(deaths, population)
    IN  IF population = <<>>
        THEN [raised |-> "none",
              rows |-> SortValues([i \in DOMAIN deaths |->
                          [mun6 |-> deaths[i].mun6, ano |-> deaths[i].ano,
                           obitos_pneumonia |-> deaths[i].obitos_pneumonia,
                           pop |-> NaN, tx_pneu_100k |-> NaN]])]
        ELSE [raised |-> "none",
              rows |-> SortValues([i \in DOMAIN rates |->
                          WithRate(rates[i],
                              IF rates[i].pop # NaN /\ rates[i].pop > 0
                              THEN RatePer100k(rates[i].obitos_pneumonia, rates[i].pop)
                              ELSE NaN)])]

\* The death records with one date: they differ in municipality and year,
\* the two columns calculate_mortality_rates reads.
RateSimRows == {r \in SimRows : r.data_obito = 19066}

\* A pipeline object of either class holds a death table and a population
\* table, and its calculate_mortality_rates is called.
InitRates ==
    /\ pipeline \in {"package", "real"}
    /\ sim_data \in { t \in Tables(RateSimRows, MaxSim) : WellFormed(t) }
    /\ population_data \in PopulationTables(pipeline)
    /\ sih_data = EmptyLoaderTable
    /\ pc = "start"
    /\ A = NoRun.A
    /\ B = NoRun.B
    /\ candidate_pairs = NoRun.candidate_pairs
    /\ features = NoRun.features
    /\ classifier = NoRun.classifier
    /\ matches = NoRun.matches
    /\ outcome = NoRun.outcome
    /\ linkage_result = NoRun.linkage_result
    /\ metrics = NoMetrics
    /\ mortality_rates = <<>>
    /\ rates_outcome = "pending"
    /\ frames = <<>>
    /\ batch = 0
    /\ death_profiles = NoProfiles
    /\ arg = NoArg
    /\ fn = "none"
    /\ ret = NoRet

CalculateRates ==
    /\ pc = "start"
    /\ pipeline = "package"
    /\ \E r \in {calculate_mortality_rates(sim_data, population_data)} :
          /\ mortality_rates' = r.rows
          /\ rates_outcome' = IF r.raised = "none" THEN "returned" ELSE r.raised
    /\ pc' = "rated"
    /\ UNCHANGED <<sim_data, sih_data, A, B, candidate_pairs, features, classifier,
                   matches, outcome, linkage_result, metrics, pipeline,
                   population_data, arg, fn, ret, frames, batch, death_profiles>>

RealCalculateRates ==
    /\ pc = "start"
    /\ pipeline = "real"
    /\ \E r \in {Real_calculate_mortality_rates(sim_data, population_data)} :
          /\ mortality_rates' = r.rows
          /\ rates_outcome' = IF r.raised = "none" THEN "returned" ELSE r.raised
    /\ pc' = "rated"
    /\ UNCHANGED <<sim_data, sih_data, A, B, candidate_pairs, features, classifier,
                   matches, outcome, linkage_result, metrics, pipeline,
                   population_data, arg, fn, ret, frames, batch, death_profiles>>

NextRates == CalculateRates \/ RealCalculateRates

SpecRates == InitRates /\ [][NextRates]_vars

----------------------------------------------------------------------------
(* Properties of the mortality rates. *)

\* C14: in the rate table every row whose population is null or 0 has a null
\* rate (not 0), and every row whose population is present and > 0 has
\* rate = death count / population x 100,000.
C14_NullRateWithoutPopulation ==
    pc = "rated" =>
        \A k \in DOMAIN mortality_rates :
            LET r == mortality_rates[k]
            IN  /\ (r.pop = NaN \/ r.pop = 0) => r.tx_pneu_100k = NaN
                /\ r.pop > 0 =>
                       r.tx_pneu_100k =
                           (r.obitos_pneumonia * 100000 * One) \div r.pop

\* The population table has no entry for the key of the death row.
NoPopulationEntry(d) ==
    \A i \in DOMAIN population_data :
        ~(population_data[i].mun6 = d.mun6 /\ population_data[i].ano = d.ano)

\* C15: every key (municipality, year) of a death record, neither of the two
\* missing, for which the population table has no entry is in the rate table
\* that calculate_mortality_rates returns, in one row that carries the number
\* of death records of the key, a null population and a null rate.
C15_KeyWithoutPopulationKept ==
    pc = "rated" =>
        \A n \in DOMAIN sim_data.rows :
            LET d == sim_data.rows[n]
            IN  (Enters(d) /\ NoPopulationEntry(d)) =>
                    /\ rates_outcome = "returned"
                    /\ \E k \in DOMAIN mortality_rates :
                          /\ mortality_rates[k] =
                               [mun6 |-> d.mun6, ano |-> d.ano,
                                obitos_pneumonia |->
                                    Cardinality({o \in DOMAIN sim_data.rows :
                                        /\ sim_data.rows[o].mun6 = d.mun6
                                        /\ sim_data.rows[o].ano = d.ano}),
                                pop |-> NaN, tx_pneu_100k |-> NaN]
                          /\ \A o \in DOMAIN mortality_rates :
                                 (/\ mortality_rates[o].mun6 = d.mun6
                                  /\ mortality_rates[o].ano = d.ano) => o = k

\* The package pipeline returned a rate table from a population table with
\* entries, in which one key has a population and another key has none.
C15_Witness ==
    /\ pc = "rated"
    /\ pipeline = "package"
    /\ population_data # <<>>
    /\ \E k \in DOMAIN mortality_rates : mortality_rates[k].pop = NaN
    /\ \E k \in DOMAIN mortality_rates : mortality_rates[k].pop > 0

----------------------------------------------------------------------------
(* Field normalisers.  Each is applied to one raw value (the pandas calls   *)
(* are element-wise).  Ages are in tenths of a year.                        *)

\* The variables of the pipeline run, which a normaliser leaves alone.
runVars == <<sim_data, sih_data, pc, A, B, candidate_pairs, features, classifier,
             matches, outcome, linkage_result, metrics, pipeline,
             population_data, mortality_rates, rates_outcome, frames, batch,
             death_profiles>>

\* Largest age handed to the age bucketing, in tenths of a year.
MaxAge == 1210

\* An age is a number >= 0 or NaN.
AgeArgs == {[kind |-> "age", value |-> a] : a \in (0..MaxAge) \cup {NaN}}

\* The labels of create_age_groups and _get_age_group (the source writes the
\* ranges with an en dash).
AgeLabels == <<"<1", "1-4", "5-14", "15-24", "25-44", "45-59", "60-74", "75+">>

\* bins=[-0.1, 1, 5, 14, 24, 44, 59, 74, 120], in tenths.
AgeBins == <<-1, 10, 50, 140, 240, 440, 590, 740, 1200>>

\* DataUtils.create_age_groups: pd.cut with its default right=True puts a
\* value in bin k when bins[k] < value <= bins[k+1]; a value in no bin, and
\* NaN, get the null category.
create_age_groups(idade_anos) ==
    IF idade_anos = NaN THEN NA
    ELSE IF \E k \in 1..Len(AgeLabels) :
                AgeBins[k] < idade_anos /\ idade_anos <= AgeBins[k + 1]
    THEN AgeLabels[CHOOSE k \in 1..Len(AgeLabels) :
                AgeBins[k] < idade_anos /\ idade_anos <= AgeBins[k + 1]]
    ELSE NA

\* age_to_group of RealPneumoniaAnalysisPipeline._get_age_group.
age_to_group(idade) ==
    IF idade = NaN THEN "Ignorado"
    ELSE IF idade < 10 THEN "<1"
    ELSE IF idade < 50 THEN "1-4"
    ELSE IF idade < 150 THEN "5-14"
    ELSE IF idade < 250 THEN "15-24"
    ELSE IF idade < 450 THEN "25-44"
    ELSE IF idade < 600 THEN "45-59"
    ELSE IF idade < 750 THEN "60-74"
    ELSE "75+"

\* result["faixa_etaria"] = self.utils.create_age_groups(result["idade_anos"])
CreateAgeGroups ==
    /\ fn = "none"
    /\ arg.kind = "age"
    /\ fn' = "create_age_groups"
    /\ ret' = create_age_groups(arg.value)
    /\ UNCHANGED <<runVars, arg>>

\* idade_anos.apply(age_to_group)
GetAgeGroup ==
    /\ fn = "none"
    /\ arg.kind = "age"
    /\ fn' = "_get_age_group"
    /\ ret' = age_to_group(arg.value)
    /\ UNCHANGED <<runVars, arg>>

----------------------------------------------------------------------------
(* Texts are sequences of one-character strings. *)

\* A missing value in a column of texts.
MissingText == <<NA>>

TextsUpTo(Chars, n) == UNION { [1..k -> Chars] : k \in 0..n }

\* astype(str): the text of a missing value is "nan".
AsTypeStr(x) == IF x = MissingText THEN <<"n", "a", "n">> ELSE x

\* str.upper() on the letters of the model.
UpperChar(c) ==
    CASE c = "a" -> "A"
      [] c = "f" -> "F"
      [] c = "j" -> "J"
      [] c = "m" -> "M"
      [] c = "n" -> "N"
      [] c = "x" -> "X"
      [] OTHER   -> c

StrUpper(t) == [k \in DOMAIN t |-> UpperChar(t[k])]

\* \d of a regular expression.
IsDigit(c) == c \in {"0", "1", "2", "3", "4", "5", "6", "7", "8", "9"}

----------------------------------------------------------------------------
(* The pneumonia filter on the cause of death / principal diagnosis. *)

\* Largest length of a diagnosis code drawn from CidChars.
MaxCidLen == 4

CidChars == {"J", "j", "1", "2", "8", "9", "X"}

CidArgs ==
    {[kind |-> "cid", value |-> t] :
        t \in TextsUpTo(CidChars, MaxCidLen)
              \cup { <<"J", "1", "2", "0">>, <<"J", "1", "3">>,
                     <<"J", "1", "8", "X", "1">>, <<"J", "1", "1">>,
                     <<"A", "0", "9">>, <<"J", "1", "8", "9">>,
                     <<"J", "1", "4", "X">>, MissingText }}

\* The start of the text matches J1[2-8].
StartsWithJ12to8(t) ==
    /\ Len(t) >= 3
    /\ t[1] = "J"
    /\ t[2] = "1"
    /\ t[3] \in {"2", "3", "4", "5", "6", "7", "8"}

\* DataUtils.is_pneumonia_cid:
\* cid_code.astype(str).str.upper().str.fullmatch(r"J1[2-8]\d*")
is_pneumonia_cid(cid_code) ==
    LET t == StrUpper(AsTypeStr(cid_code))
    IN  /\ StartsWithJ12to8(t)
        /\ \A k \in 4..Len(t) : IsDigit(t[k])

\* mask_pne of RealPneumoniaAnalysisPipeline.load_sim_data:
\* df['CAUSABAS'].astype(str).str.upper().str.match(r'J1[2-8]')
mask_pne(causabas) == StartsWithJ12to8(StrUpper(AsTypeStr(causabas)))

IsPneumoniaCid ==
    /\ fn = "none"
    /\ arg.kind = "cid"
    /\ fn' = "is_pneumonia_cid"
    /\ ret' = is_pneumonia_cid(arg.value)
    /\ UNCHANGED <<runVars, arg>>

MaskPne ==
    /\ fn = "none"
    /\ arg.kind = "cid"
    /\ fn' = "mask_pne"
    /\ ret' = mask_pne(arg.value)
    /\ UNCHANGED <<runVars, arg>>

----------------------------------------------------------------------------
(* The 6-digit municipality code. *)

\* Largest length of a raw municipality code drawn from MunChars.
MaxMunLen == 7

MunChars == {"0", "3", "a"}

MunArgs ==
    {[kind |-> "mun", value |-> t] :
        t \in TextsUpTo(MunChars, MaxMunLen) \cup {MissingText}}

\* str.extract(r"(\d+)")[0]: the leftmost longest run of digits, or a
\* missing value when the text holds no digit.
ExtractDigits(t) ==
    IF \A k \in DOMAIN t : ~IsDigit(t[k]) THEN MissingText
    ELSE LET first == CHOOSE i \in DOMAIN t :
                          /\ IsDigit(t[i])
                          /\ \A k \in 1..(i - 1) : ~IsDigit(t[k])
             last  == CHOOSE j \in first..Len(t) :
                          /\ \A k \in first..j : IsDigit(t[k])
                          /\ j < Len(t) => ~IsDigit(t[j + 1])
         IN  SubSeq(t, first, last)

\* str.zfill(6): zeros on the left up to 6 characters, after a leading sign.
ZFill6(t) ==
    IF Len(t) >= 6 THEN t
    ELSE LET zeros == [k \in 1..(6 - Len(t)) |-> "0"]
         IN  IF t # <<>> /\ t[1] \in {"+", "-"}
             THEN <<t[1]>> \o zeros \o Tail(t)
             ELSE zeros \o t

\* str.slice(0, 6)
Slice06(t) == SubSeq(t, 1, IF Len(t) < 6 THEN Len(t) ELSE 6)

\* DataUtils.mun_to6; the string methods leave a missing value missing.
mun_to6(x) ==
    LET s == ExtractDigits(AsTypeStr(x))
    IN  IF s = MissingText THEN MissingText ELSE Slice06(ZFill6(s))

\* result['mun6'] of RealPneumoniaAnalysisPipeline._process_sim_dataframe:
\* df['CODMUNRES'].astype(str).str.zfill(6).str.slice(0, 6)
Real_mun6(x) == Slice06(ZFill6(AsTypeStr(x)))

MunTo6 ==
    /\ fn = "none"
    /\ arg.kind = "mun"
    /\ fn' = "mun_to6"
    /\ ret' = mun_to6(arg.value)
    /\ UNCHANGED <<runVars, arg>>

RealMun6 ==
    /\ fn = "none"
    /\ arg.kind = "mun"
    /\ fn' = "Real_mun6"
    /\ ret' = Real_mun6(arg.value)
    /\ UNCHANGED <<runVars, arg>>

----------------------------------------------------------------------------
(* The standardized sex. *)

\* Largest numeric code of a raw SEXO field.
MaxSexCode == 4

\* Largest length of a raw SEXO text drawn from SexChars.
MaxSexLen == 2

SexChars == {"1", "2", "3", "M", "F", "m", "f", "x"}

\* A raw SEXO value is a number, a text or missing.
Number(n) == [type |-> "number", v |-> n]

Text(t) == [type |-> "text", v |-> t]

Missing == [type |-> "missing", v |-> <<>>]

SexArgs ==
    {[kind |-> "sexo", value |-> x] :
        x \in {Number(n) : n \in 0..MaxSexCode}
              \cup {Text(t) : t \in TextsUpTo(SexChars, MaxSexLen)}
              \cup {Missing}}

DigitChars == <<"0", "1", "2", "3", "4", "5", "6", "7", "8", "9">>

\* The decimal text of a number >= 0.
RECURSIVE IntText(_)
IntText(n) ==
    IF n < 10 THEN <<DigitChars[n + 1]>>
    ELSE IntText(n \div 10) \o <<DigitChars[(n % 10) + 1]>>

\* The number a text of digits spells.
RECURSIVE TextInt(_)
TextInt(t) ==
    IF t = <<>> THEN 0
    ELSE 10 * TextInt(SubSeq(t, 1, Len(t) - 1))
         + (CHOOSE d \in 0..9 : DigitChars[d + 1] = t[Len(t)])

\* pd.to_numeric(..., errors="coerce"): a number stays, a text of digits is
\* its number, every other text and a missing value are NaN.
to_numeric(x) ==
    IF x.type = "number" THEN x
    ELSE IF x.type = "text" /\ x.v # <<>> /\ \A k \in DOMAIN x.v : IsDigit(x.v[k])
    THEN Number(TextInt(x.v))
    ELSE Missing

\* astype(str).str[0].str.upper(): the first character of the text of the
\* value in upper case, null for an empty text.
FirstUpper(x) ==
    IF x.type = "number" THEN UpperChar(IntText(x.v)[1])
    ELSE IF x.type = "missing" THEN "N"
    ELSE IF x.v = <<>> THEN NA
    ELSE UpperChar(x.v[1])

\* Series.map(codes): the label of a number that is a key of codes, else null
\* (a text is no key of a mapping with numeric keys).
MapCodes(x, male, female) ==
    IF x.type = "number" /\ x.v = male THEN "M"
    ELSE IF x.type = "number" /\ x.v = female THEN "F"
    ELSE NA

\* .map({"M": "M", "F": "F"}).fillna("I")
MOrFOrI(c) == IF c \in {"M", "F"} THEN c ELSE "I"

\* A standardize_sex whose "sim" branch reads the numeric codes only.
standardize_sex_codes_only(sexo, source) ==
    IF source = "sim" THEN MOrFOrI(MapCodes(sexo, 1, 2))
    ELSE IF source = "sih" THEN MOrFOrI(MapCodes(sexo, 1, 3))
    ELSE MOrFOrI(FirstUpper(sexo))

\* DataUtils.standardize_sex on one value of the series.
standardize_sex(sexo, source) ==
    IF source = "sim"
    THEN MOrFOrI(IF MapCodes(sexo, 1, 2) # NA THEN MapCodes(sexo, 1, 2)
                 ELSE FirstUpper(sexo))
    ELSE IF source = "sih"
    THEN IF MapCodes(sexo, 1, 3) # NA THEN MapCodes(sexo, 1, 3) ELSE "I"
    ELSE MOrFOrI(FirstUpper(sexo))

\* SIMProcessor: result["sexo"] = standardize_sex(df["SEXO"], "sim")
SimSexo ==
    /\ fn = "none"
    /\ arg.kind = "sexo"
    /\ fn' = "standardize_sex_sim"
    /\ ret' = standardize_sex(arg.value, "sim")
    /\ UNCHANGED <<runVars, arg>>

\* SIHProcessor: sih_sex = pd.to_numeric(df["SEXO"], errors="coerce");
\* result["sexo"] = standardize_sex(sih_sex, "sih")
SihSexo ==
    /\ fn = "none"
    /\ arg.kind = "sexo"
    /\ fn' = "standardize_sex_sih"
    /\ ret' = standardize_sex(to_numeric(arg.value), "sih")
    /\ UNCHANGED <<runVars, arg>>

----------------------------------------------------------------------------
(* Date parsing: DataUtils.parse_yyyymmdd_col. *)

\* Largest number of values in a date column handed to the parser.
MaxDateCol == 2

\* Raw date values: 2022-03-15 as year-month-day and as day-month-year, with
\* and without separators, 2022-04-01 as day-month-year, the integer
\* 1032022 (01032022 read as a number), digits that are no date, an empty
\* text, a text without digits and a missing value.
DateTexts ==
    { <<"2", "0", "2", "2", "0", "3", "1", "5">>,
      <<"2", "0", "2", "2", "-", "0", "3", "-", "1", "5">>,
      <<"1", "5", "0", "3", "2", "0", "2", "2">>,
      <<"1", "5", "/", "0", "3", "/", "2", "0", "2", "2">>,
      <<"0", "1", "0", "4", "2", "0", "2", "2">>,
      <<"1", "0", "3", "2", "0", "2", "2">>,
      <<"2", "0", "2", "2", "1", "3", "5", "0">>,
      <<"3", "0", "0", "2", "2", "0", "2", "2">>,
      <<>>,
      <<"X">>,
      MissingText }

DateArgs == {[kind |-> "date", value |-> c] : c \in SeqsUpTo(DateTexts, MaxDateCol) \ {<<>>}}

\* str.replace(r"\D", "", regex=True) on the text of the value.
StripNonDigits(x) == SelectSeq(AsTypeStr(x), IsDigit)

IsLeap(y) == (y % 4 = 0 /\ y % 100 # 0) \/ y % 400 = 0

DaysInMonth(y, m) ==
    IF m = 2 THEN (IF IsLeap(y) THEN 29 ELSE 28)
    ELSE IF m \in {4, 6, 9, 11} THEN 30 ELSE 31

\* The day number (days since 1970-01-01) of a calendar date.
DaysFromCivil(y, m, d) ==
    LET yy  == IF m <= 2 THEN y - 1 ELSE y
        era == yy \div 400
        yoe == yy - era * 400
        mp  == IF m > 2 THEN m - 3 ELSE m + 9
        doy == (153 * mp + 2) \div 5 + d - 1
        doe == yoe * 365 + yoe \div 4 - yoe \div 100 + doy
    IN  era * 146097 + doe - 719468

\* The first and the last midnight a datetime64[ns] value can hold
\* (1677-09-22 and 2262-04-11).
MinDay == -106751

MaxDay == 106751

\* The datetime64[ns] value of year y, month m, day d; NaT with
\* errors="coerce" when they are no calendar date or the date is out of
\* bounds.
DateOf(y, m, d) ==
    IF y >= 1 /\ m \in 1..12 /\ d >= 1 /\ d <= DaysInMonth(y, m)
       /\ DaysFromCivil(y, m, d) \in MinDay..MaxDay
    THEN DaysFromCivil(y, m, d)
    ELSE NaT

\* pd.to_datetime(s, format="%Y%m%d", errors="coerce"): four digits of year,
\* two of month, two of day, and nothing else.
ParseYmd(s) ==
    IF Len(s) = 8
    THEN DateOf(TextInt(SubSeq(s, 1, 4)), TextInt(SubSeq(s, 5, 6)),
                TextInt(SubSeq(s, 7, 8)))
    ELSE NaT

\* The directive %d matches 3[0-1]|[1-2]\d|0[1-9]|[1-9].
MatchesDay(t) ==
    IF Len(t) = 2 THEN TextInt(t) \in 1..31 ELSE TextInt(t) \in 1..9

\* The directive %m matches 1[0-2]|0[1-9]|[1-9].
MatchesMonth(t) ==
    IF Len(t) = 2 THEN TextInt(t) \in 1..12 ELSE TextInt(t) \in 1..9

\* The widths of day and month the pattern of "%d%m%Y" tries, in the order
\* it tries them: two digits before one.
DayMonthWidths == <<<<2, 2>>, <<2, 1>>, <<1, 2>>, <<1, 1>>>>

MatchesDmY(s, w) ==
    /\ Len(s) >= w[1] + w[2] + 4
    /\ MatchesDay(SubSeq(s, 1, w[1]))
    /\ MatchesMonth(SubSeq(s, w[1] + 1, w[1] + w[2]))

\* pd.to_datetime(s, format="%d%m%Y", errors="coerce"): the pattern is
\* matched at the start of the text, its first match is taken, and the
\* value is NaT when text remains after the match.
ParseDmY(s) ==
    IF \A k \in DOMAIN DayMonthWidths : ~MatchesDmY(s, DayMonthWidths[k])
    THEN NaT
    ELSE LET k == CHOOSE i \in DOMAIN DayMonthWidths :
                      /\ MatchesDmY(s, DayMonthWidths[i])
                      /\ \A j \in 1..(i - 1) : ~MatchesDmY(s, DayMonthWidths[j])
             w == DayMonthWidths[k]
         IN  IF Len(s) # w[1] + w[2] + 4 THEN NaT
             ELSE DateOf(TextInt(SubSeq(s, w[1] + w[2] + 1, w[1] + w[2] + 4)),
                         TextInt(SubSeq(s, w[1] + 1, w[1] + w[2])),
                         TextInt(SubSeq(s, 1, w[1])))

\* One value of parse_yyyymmdd_col: year-month-day first, day-month-year for
\* the values the first format left NaT.
parse_yyyymmdd(x) ==
    LET s == StripNonDigits(x)
    IN  IF ParseYmd(s) # NaT THEN ParseYmd(s) ELSE ParseDmY(s)

parse_yyyymmdd_col(s) == [k \in DOMAIN s |-> parse_yyyymmdd(s[k])]

ParseDateCol ==
    /\ fn = "none"
    /\ arg.kind = "date"
    /\ fn' = "parse_yyyymmdd_col"
    /\ ret' = parse_yyyymmdd_col(arg.value)
    /\ UNCHANGED <<runVars, arg>>

----------------------------------------------------------------------------
(* The normalisers as a state machine: a raw value is handed to one of them. *)

NormaliserArgs == AgeArgs \cup CidArgs \cup MunArgs \cup SexArgs \cup DateArgs

InitNormalise ==
    /\ arg \in NormaliserArgs
    /\ fn = "none"
    /\ ret = NoRet
    /\ sim_data = EmptyLoaderTable
    /\ sih_data = EmptyLoaderTable
    /\ pc = "start"
    /\ A = NoRun.A
    /\ B = NoRun.B
    /\ candidate_pairs = NoRun.candidate_pairs
    /\ features = NoRun.features
    /\ classifier = NoRun.classifier
    /\ matches = NoRun.matches
    /\ outcome = NoRun.outcome
    /\ linkage_result = NoRun.linkage_result
    /\ metrics = NoMetrics
    /\ pipeline = "package"
    /\ population_data = <<>>
    /\ mortality_rates = <<>>
    /\ rates_outcome = "pending"
    /\ frames = <<>>
    /\ batch = 0
    /\ death_profiles = NoProfiles

NextNormalise ==
    \/ CreateAgeGroups
    \/ GetAgeGroup
    \/ IsPneumoniaCid
    \/ MaskPne
    \/ MunTo6
    \/ RealMun6
    \/ SimSexo
    \/ SihSexo
    \/ ParseDateCol

SpecNormalise == InitNormalise /\ [][NextNormalise]_vars

----------------------------------------------------------------------------
(* Properties of the normalisers. *)

\* C16: for every age >= 0, however large, the age bucketing returns one of
\* the eight age labels, and for a missing age it returns a label that is
\* not null and is none of the eight.
C16_AgeBucketTotal ==
    fn \in {"create_age_groups", "_get_age_group"} =>
        /\ arg.value # NaN => \E k \in DOMAIN AgeLabels : ret = AgeLabels[k]
        /\ arg.value = NaN =>
               /\ ret # NA
               /\ \A k \in DOMAIN AgeLabels : ret # AgeLabels[k]

\* The label of the half-open interval [0,1), [1,5), [5,15), [15,25),
\* [25,45), [45,60), [60,75), [75,inf) that holds the age.
HalfOpenLabel(a) ==
    LET lower == <<0, 10, 50, 150, 250, 450, 600, 750>>
    IN  AgeLabels[CHOOSE k \in DOMAIN lower :
            /\ lower[k] <= a
            /\ k < Len(lower) => a < lower[k + 1]]

\* C17: the age bucketing returns for an age the label of the half-open
\* interval that holds it, so that 1 -> 1-4, 5 -> 5-14, 15 -> 15-24,
\* 25 -> 25-44, 45 -> 45-59, 60 -> 60-74, 75 -> 75+, 14.5 -> 5-14 and
\* 74.5 -> 60-74.
C17_HalfOpenBuckets ==
    (fn \in {"create_age_groups", "_get_age_group"} /\ arg.value # NaN) =>
        ret = HalfOpenLabel(arg.value)

\* C18: the diagnosis-set predicate is true exactly for the codes made of
\* 'J1' (letters without regard to case), a digit 2..8 and then any number
\* of characters of any kind; it is true for 'J120', 'J13' and 'J18X1' and
\* false for 'J11', 'A09', the empty text and a missing value.
C18_DiagnosisSetPredicate ==
    fn \in {"is_pneumonia_cid", "mask_pne"} =>
        ret = (/\ arg.value # MissingText
               /\ StartsWithJ12to8(StrUpper(arg.value)))

\* The text is six decimal digits.
SixDigits(t) == Len(t) = 6 /\ \A k \in DOMAIN t : IsDigit(t[k])

\* C19: for every input the municipality canonicalisation returns a text of
\* exactly six decimal digits or the missing value, the missing value when
\* the input holds no digit, and it returns a six-digit code unchanged.
C19_SixDigitsOrMissing ==
    fn \in {"mun_to6", "Real_mun6"} =>
        /\ ret = MissingText \/ SixDigits(ret)
        /\ (arg.value = MissingText \/ \A k \in DOMAIN arg.value : ~IsDigit(arg.value[k]))
               => ret = MissingText
        /\ (arg.value # MissingText /\ SixDigits(arg.value)) => ret = arg.value

\* The value standardize_sex receives: the raw SEXO field of a death record,
\* the raw field coerced to a number for a discharge record.
Received == IF fn = "standardize_sex_sih" THEN to_numeric(arg.value) ELSE arg.value

\* C20 as stated: under the death-registry schema the code 1 gives M and 2
\* gives F, under the discharge schema 1 gives M and 3 gives F, and every
\* other value and a missing value give the unknown label, so that M and F
\* come from those numeric codes only.
C20_OnlyNumericCodes ==
    fn \in {"standardize_sex_sim", "standardize_sex_sih"} =>
        ret = IF Received = Number(1) THEN "M"
              ELSE IF Received = Number(IF fn = "standardize_sex_sim" THEN 2 ELSE 3)
              THEN "F"
              ELSE "I"

\* The raw value is a text that begins with the letter c in either case.
BeginsWith(x, c) == x.type = "text" /\ x.v # <<>> /\ UpperChar(x.v[1]) = c

\* C20 amended: under the death-registry schema the number 1 and a text
\* beginning with M or m give M, the number 2 and a text beginning with F or
\* f give F; under the discharge schema, whose field is first coerced to a
\* number, 1 gives M and 3 gives F; every other value and a missing value
\* give I, so the output is always M, F or I.
C20_SexStandardised ==
    /\ fn = "standardize_sex_sim" =>
           ret = IF arg.value = Number(1) \/ BeginsWith(arg.value, "M") THEN "M"
                 ELSE IF arg.value = Number(2) \/ BeginsWith(arg.value, "F") THEN "F"
                 ELSE "I"
    /\ fn = "standardize_sex_sih" =>
           ret = IF to_numeric(arg.value) = Number(1) THEN "M"
                 ELSE IF to_numeric(arg.value) = Number(3) THEN "F"
                 ELSE "I"

\* A death record whose SEXO is a text beginning with m was standardized to M.
C20_Witness ==
    /\ fn = "standardize_sex_sim"
    /\ BeginsWith(arg.value, "M")
    /\ arg.value.v[1] = "m"
    /\ ret = "M"


\* The date the digits of a raw value spell when they are eight digits read
\* as year-month-day or, failing that, as day-month-year; NaT otherwise.
EightDigitDate(x) ==
    LET s == StripNonDigits(x)
    IN  IF Len(s) # 8 THEN NaT
        ELSE IF DateOf(TextInt(SubSeq(s, 1, 4)), TextInt(SubSeq(s, 5, 6)),
                       TextInt(SubSeq(s, 7, 8))) # NaT
        THEN DateOf(TextInt(SubSeq(s, 1, 4)), TextInt(SubSeq(s, 5, 6)),
                    TextInt(SubSeq(s, 7, 8)))
        ELSE DateOf(TextInt(SubSeq(s, 5, 8)), TextInt(SubSeq(s, 3, 4)),
                    TextInt(SubSeq(s, 1, 2)))

\* C26: date parsing strips the non-digit characters and reads the digits as
\* year-month-day (8 digits) and only if that fails as day-month-year
\* (8 digits); when both fail the result is the missing value, and the result
\* for one value of a column does not depend on the other values.
C26_EightDigitDates ==
    fn = "parse_yyyymmdd_col" =>
        \A k \in DOMAIN arg.value :
            /\ ret[k] = EightDigitDate(arg.value[k])
            /\ ret[k] = parse_yyyymmdd_col(<<arg.value[k]>>)[1]

----------------------------------------------------------------------------
(* The table builders: SIMProcessor._process_sim_dataframe,
   SIHProcessor._process_sih_dataframe and the batch body of
   RealPneumoniaAnalysisPipeline.load_sih_data.  A raw batch is the set of
   its column names and the sequence of its records; a record holds a value
   for every column of the model, and the builder sees the values of the
   columns the batch has. *)

\* Largest number of records in a raw batch.
MaxRaw == 2

RECURSIVE JoinText(_)
JoinText(t) == IF t = <<>> THEN "" ELSE Head(t) \o JoinText(Tail(t))

\* The number of a numeric value, NaN for a missing one.
NumOrNaN(x) == IF x.type = "number" THEN x.v ELSE NaN

\* astype(str) of a value.
ValueText(x) ==
    IF x.type = "number" THEN IntText(x.v)
    ELSE IF x.type = "text" THEN x.v
    ELSE <<"n", "a", "n">>

\* str.strip()
RECURSIVE Strip(_)
Strip(t) ==
    IF t # <<>> /\ Head(t) = " " THEN Strip(Tail(t))
    ELSE IF t # <<>> /\ t[Len(t)] = " " THEN Strip(SubSeq(t, 1, Len(t) - 1))
    ELSE t

\* extract_cid3 without the upper-casing.
extract_cid3_as_written(cid_code) ==
    LET t == AsTypeStr(cid_code)
    IN  JoinText(SubSeq(t, 1, IF Len(t) < 3 THEN Len(t) ELSE 3))

\* cid_code.astype(str).str.upper().str.slice(0, 3)
extract_cid3(cid_code) ==
    LET t == StrUpper(AsTypeStr(cid_code))
    IN  JoinText(SubSeq(t, 1, IF Len(t) < 3 THEN Len(t) ELSE 3))

\* pd.DataFrame(): no column, no row.
NoTable == [raised |-> "none", columns |-> {}, rows |-> <<>>]

RawDeath(cause, mun, date, sexo, idade_anos, idade, esc) ==
    [CAUSABAS |-> cause, CODMUNRES |-> mun, DTOBITO |-> date, SEXO |-> sexo,
     IDADE_ANOS |-> idade_anos, IDADE |-> idade, ESC |-> esc]

\* A death by pneumonia of a man of 70 (IDADE 470: unit 4, years), with the
\* 7-digit municipality code and the date as day-month-year.
DeathJ189 ==
    RawDeath(<<"J", "1", "8", "9">>, <<"3", "1", "0", "6", "2", "0", "0">>,
             <<"1", "5", "0", "3", "2", "0", "2", "2">>, Number(1), Number(700),
             Number(470), Number(3))

\* A death by pneumonia with the cause in lower case, the sex as a text and
\* no age and no schooling.
DeathLowerJ15 ==
    RawDeath(<<"j", "1", "5">>, <<"3", "5", "5", "0", "3", "0">>,
             <<"2", "0", "2", "2", "0", "3", "1", "5">>, Text(<<"F">>), Missing,
             Missing, Missing)

\* A death of another cause.
DeathA09 ==
    RawDeath(<<"A", "0", "9">>, <<"3", "1", "0", "6", "2", "0">>,
             <<"2", "0", "2", "2", "0", "3", "1", "5">>, Number(2), Number(300),
             Number(430), Number(1))

\* A death whose pneumonia code has a trailing letter, of a child of six
\* days (IDADE 206: unit 2, days).
DeathJ18X ==
    RawDeath(<<"J", "1", "8", "X">>, MissingText,
             <<"2", "0", "2", "2", "0", "3", "1", "5">>, Number(1), Number(0),
             Number(206), Number(1))

\* A record without cause, date, sex, age and schooling.
DeathNoCause ==
    RawDeath(MissingText, <<"3", "1", "0", "6", "2", "0">>, MissingText,
             Missing, Missing, Missing, Missing)

RawDeaths == {DeathJ189, DeathLowerJ15, DeathA09, DeathJ18X, DeathNoCause}

SimColumns ==
    {"CAUSABAS", "CODMUNRES", "DTOBITO", "SEXO", "IDADE_ANOS", "IDADE", "ESC"}

\* The columns of a raw death batch: all of them, all but the cause of
\* death, all but the municipality, or the cause of death alone.
SimLayouts ==
    { SimColumns, SimColumns \ {"CAUSABAS"}, SimColumns \ {"CODMUNRES"},
      {"CAUSABAS"} }

Years == {2021, 2022}

SimBatches ==
    { [kind |-> "sim_batch", columns |-> c, rows |-> r, year |-> y, uf |-> "MG"] :
        c \in SimLayouts, r \in SeqsUpTo(RawDeaths, MaxRaw), y \in Years }

\* One row of the result of _process_sim_dataframe, from record k of the
\* batch.  The result starts as pd.DataFrame(): a scalar assigned before the
\* first column taken from the batch makes a column without rows, which is
\* filled with nulls when the first column of the batch gives the result its
\* index.
SimResultRow(df, year, k) ==
    LET r      == df.rows[k]
        hasMun == "CODMUNRES" \in df.columns
        hasDt  == "DTOBITO" \in df.columns
        idade  == IF "IDADE_ANOS" \in df.columns
                  THEN NumOrNaN(to_numeric(r.IDADE_ANOS)) ELSE NaN
    IN  [idx          |-> k - 1,
         mun6         |-> IF hasMun THEN JoinText(mun_to6(r.CODMUNRES)) ELSE NA,
         ano          |-> IF hasMun THEN year ELSE NaN,
         data_obito   |-> IF hasDt THEN parse_yyyymmdd(r.DTOBITO) ELSE NaT,
         sexo         |-> IF "SEXO" \in df.columns
                          THEN standardize_sex(r.SEXO, "sim")
                          ELSE IF hasMun \/ hasDt THEN "I" ELSE NA,
         idade_anos   |-> idade,
         escolaridade |-> IF "ESC" \in df.columns THEN NumOrNaN(r.ESC) ELSE NaN,
         cid3         |-> extract_cid3(r.CAUSABAS),
         faixa_etaria |-> create_age_groups(idade)]

ResultColumnsSim ==
    {"mun6", "ano", "data_obito", "sexo", "idade_anos", "escolaridade", "cid3",
     "faixa_etaria"}

\* _process_sim_dataframe without the test of the cause column: df[None]
\* raises KeyError.
process_sim_dataframe_unguarded(df, year) ==
    IF "CAUSABAS" \notin df.columns
    THEN [raised |-> "KeyError", columns |-> {}, rows |-> <<>>]
    ELSE LET kept == SelectSeq([k \in DOMAIN df.rows |-> k],
                               LAMBDA k : is_pneumonia_cid(df.rows[k].CAUSABAS))
         IN  IF kept = <<>> THEN NoTable
             ELSE [raised  |-> "none",
                   columns |-> ResultColumnsSim,
                   rows    |-> [i \in DOMAIN kept |-> SimResultRow(df, year, kept[i])]]

_process_sim_dataframe(df, year) ==
    IF "CAUSABAS" \notin df.columns THEN NoTable
    ELSE LET kept == SelectSeq([k \in DOMAIN df.rows |-> k],
                               LAMBDA k : is_pneumonia_cid(df.rows[k].CAUSABAS))
         IN  IF kept = <<>> THEN NoTable
             ELSE [raised  |-> "none",
                   columns |-> ResultColumnsSim,
                   rows    |-> [i \in DOMAIN kept |-> SimResultRow(df, year, kept[i])]]

ProcessSimDataframe ==
    /\ fn = "none"
    /\ arg.kind = "sim_batch"
    /\ fn' = "_process_sim_dataframe"
    /\ ret' = _process_sim_dataframe(arg, arg.year)
    /\ UNCHANGED <<runVars, arg>>

RawDischarge(ident, morte, diag, mun, saida, sexo, nasc, idade) ==
    [IDENT |-> ident, MORTE |-> morte, DIAG_PRINC |-> diag, MUNIC_RES |-> mun,
     DT_SAIDA |-> saida, SEXO |-> sexo, NASC |-> nasc, IDADE |-> idade]

\* A death in hospital with pneumonia.
DischargeDeathJ189 ==
    RawDischarge(Text(<<"1">>), Number(1), <<"J", "1", "8", "9">>,
                 <<"3", "1", "0", "6", "2", "0">>,
                 <<"2", "0", "2", "2", "0", "3", "1", "5">>, Number(1),
                 <<"1", "9", "5", "2", "0", "3", "1", "5">>, Number(700))

\* A patient with pneumonia discharged alive.
DischargeAliveJ189 ==
    RawDischarge(Text(<<"1">>), Number(0), <<"J", "1", "8", "9">>,
                 <<"3", "1", "0", "6", "2", "0">>,
                 <<"2", "0", "2", "2", "0", "3", "1", "5">>, Number(1),
                 <<"1", "9", "5", "2", "0", "3", "1", "5">>, Number(700))

\* A death in hospital of another diagnosis.
DischargeDeathA09 ==
    RawDischarge(Text(<<"1">>), Number(1), <<"A", "0", "9">>,
                 <<"3", "5", "5", "0", "3", "0">>,
                 <<"2", "0", "2", "2", "0", "3", "1", "5">>, Number(3),
                 MissingText, Number(300))

\* A death with pneumonia under a long-stay authorisation (IDENT 5).
DischargeLongStay ==
    RawDischarge(Text(<<"5">>), Number(1), <<"J", "1", "5">>,
                 <<"3", "5", "5", "0", "3", "0">>,
                 <<"2", "0", "2", "2", "0", "3", "1", "5">>, Number(3),
                 MissingText, Number(705))

\* A death with pneumonia whose outcome and sex are texts, the diagnosis in
\* lower case and the date as day-month-year.
DischargeTexts ==
    RawDischarge(Number(1), Text(<<"1">>), <<"j", "1", "5", "9">>,
                 <<"3", "5", "5", "0", "3", "0">>,
                 <<"1", "5", "0", "3", "2", "0", "2", "2">>, Text(<<"3">>),
                 MissingText, Missing)

RawDischarges ==
    { DischargeDeathJ189, DischargeAliveJ189, DischargeDeathA09,
      DischargeLongStay, DischargeTexts }

SihColumns ==
    {"IDENT", "MORTE", "DIAG_PRINC", "MUNIC_RES", "DT_SAIDA", "SEXO", "NASC",
     "IDADE"}

\* The columns of a raw discharge batch: all of them, all but the death
\* outcome, all but the principal diagnosis, all but the municipality.
SihLayouts ==
    { SihColumns, SihColumns \ {"MORTE"}, SihColumns \ {"DIAG_PRINC"},
      SihColumns \ {"MUNIC_RES"} }

SihBatches ==
    { [kind |-> "sih_batch", columns |-> c, rows |-> r, year |-> y, uf |-> "MG"] :
        c \in SihLayouts, r \in SeqsUpTo(RawDischarges, MaxRaw), y \in Years }

\* _apply_quality_filters: the positions of the records of general
\* authorisations (IDENT = 1), of all records when IDENT is no column.
_apply_quality_filters(df) ==
    SelectSeq([k \in DOMAIN df.rows |-> k],
              LAMBDA k : "IDENT" \in df.columns =>
                             Strip(ValueText(df.rows[k].IDENT)) = <<"1">>)

\* _calculate_age: the years between birth and discharge where both dates
\* parse, the IDADE field elsewhere.  Ages are in tenths of a year.
_calculate_age(df, r) ==
    LET nasc       == parse_yyyymmdd(r.NASC)
        saida      == parse_yyyymmdd(r.DT_SAIDA)
        idade_calc == IF "NASC" \in df.columns /\ "DT_SAIDA" \in df.columns
                         /\ nasc # NaT /\ saida # NaT
                      THEN ((saida - nasc) * 40) \div 1461
                      ELSE NaN
        idade_raw  == IF "IDADE" \in df.columns
                      THEN NumOrNaN(to_numeric(r.IDADE)) ELSE NaN
    IN  IF idade_calc # NaN THEN idade_calc ELSE idade_raw

ResultColumnsSih == {"mun6", "ano", "data_saida", "sexo", "idade_anos", "cid3"}

SihResultRow(df, year, k) ==
    LET r      == df.rows[k]
        hasMun == "MUNIC_RES" \in df.columns
        hasDt  == "DT_SAIDA" \in df.columns
    IN  [idx        |-> k - 1,
         mun6       |-> IF hasMun THEN JoinText(mun_to6(r.MUNIC_RES)) ELSE NA,
         ano        |-> IF hasMun THEN year ELSE NaN,
         data_saida |-> IF hasDt THEN parse_yyyymmdd(r.DT_SAIDA) ELSE NaT,
         sexo       |-> IF "SEXO" \in df.columns
                        THEN standardize_sex(to_numeric(r.SEXO), "sih")
                        ELSE IF hasMun \/ hasDt THEN "I" ELSE NA,
         idade_anos |-> _calculate_age(df, r),
         cid3       |-> extract_cid3(r.DIAG_PRINC)]

_process_sih_dataframe(df, year) ==
    LET general == _apply_quality_filters(df)
        deaths  == SelectSeq(general,
                             LAMBDA k : "MORTE" \in df.columns =>
                                            to_numeric(df.rows[k].MORTE) = Number(1))
        kept    == SelectSeq(deaths,
                             LAMBDA k : is_pneumonia_cid(df.rows[k].DIAG_PRINC))
    IN  IF deaths = <<>> THEN NoTable
        ELSE IF "DIAG_PRINC" \notin df.columns THEN NoTable
        ELSE IF kept = <<>> THEN NoTable
        ELSE [raised  |-> "none",
              columns |-> ResultColumnsSih,
              rows    |-> [i \in DOMAIN kept |-> SihResultRow(df, year, kept[i])]]

ProcessSihDataframe ==
    /\ fn = "none"
    /\ arg.kind = "sih_batch"
    /\ fn' = "_process_sih_dataframe"
    /\ ret' = _process_sih_dataframe(arg, arg.year)
    /\ UNCHANGED <<runVars, arg>>

\* pd.to_datetime(df['DT_SAIDA'], format='%Y%m%d', errors='coerce') on the
\* raw value: nothing is stripped.
Real_to_datetime(x) ==
    IF \A k \in DOMAIN AsTypeStr(x) : IsDigit(AsTypeStr(x)[k])
    THEN ParseYmd(AsTypeStr(x)) ELSE NaT

\* RealPneumoniaAnalysisPipeline._process_sih_dataframe on record k.
RealSihResultRow(df, year, k) ==
    LET r      == df.rows[k]
        hasMun == "MUNIC_RES" \in df.columns
    IN  [idx        |-> k - 1,
         mun6       |-> IF hasMun THEN JoinText(Real_mun6(r.MUNIC_RES)) ELSE NA,
         ano        |-> IF hasMun THEN year ELSE NaN,
         uf         |-> IF hasMun THEN df.uf ELSE NA,
         data_saida |-> IF "DT_SAIDA" \in df.columns
                        THEN Real_to_datetime(r.DT_SAIDA) ELSE NaT,
         sexo       |-> IF "SEXO" \in df.columns
                        THEN (IF MapCodes(r.SEXO, 1, 3) # NA
                              THEN MapCodes(r.SEXO, 1, 3) ELSE "I")
                        ELSE IF hasMun \/ "DT_SAIDA" \in df.columns THEN "I" ELSE NA,
         idade_anos |-> IF "IDADE" \in df.columns
                        THEN NumOrNaN(to_numeric(r.IDADE)) ELSE NaN,
         cid3       |-> extract_cid3(r.DIAG_PRINC)]

\* The body of one batch of RealPneumoniaAnalysisPipeline.load_sih_data,
\* from the decoded frame on: the two filters and _process_sih_dataframe.  A
\* batch without DIAG_PRINC or without pneumonia deaths appends nothing.
Real_process_sih_batch(df, year) ==
    LET deaths == SelectSeq([k \in DOMAIN df.rows |-> k],
                            LAMBDA k : "MORTE" \in df.columns =>
                                           df.rows[k].MORTE = Number(1))
        kept   == SelectSeq(deaths, LAMBDA k : mask_pne(df.rows[k].DIAG_PRINC))
    IN  IF "DIAG_PRINC" \notin df.columns THEN NoTable
        ELSE IF kept = <<>> THEN NoTable
        ELSE [raised  |-> "none",
              columns |-> ResultColumnsSih \cup {"uf"},
              rows    |-> [i \in DOMAIN kept |-> RealSihResultRow(df, year, kept[i])]]

RealProcessSihBatch ==
    /\ fn = "none"
    /\ arg.kind = "sih_batch"
    /\ fn' = "load_sih_data"
    /\ ret' = Real_process_sih_batch(arg, arg.year)
    /\ UNCHANGED <<runVars, arg>>

InitBuild ==
    /\ arg \in SimBatches \cup SihBatches
    /\ fn = "none"
    /\ ret = NoRet
    /\ sim_data = EmptyLoaderTable
    /\ sih_data = EmptyLoaderTable
    /\ pc = "start"
    /\ A = NoRun.A
    /\ B = NoRun.B
    /\ candidate_pairs = NoRun.candidate_pairs
    /\ features = NoRun.features
    /\ classifier = NoRun.classifier
    /\ matches = NoRun.matches
    /\ outcome = NoRun.outcome
    /\ linkage_result = NoRun.linkage_result
    /\ metrics = NoMetrics
    /\ pipeline = "package"
    /\ population_data = <<>>
    /\ mortality_rates = <<>>
    /\ rates_outcome = "pending"
    /\ frames = <<>>
    /\ batch = 0
    /\ death_profiles = NoProfiles

NextBuild == ProcessSimDataframe \/ ProcessSihDataframe \/ RealProcessSihBatch

SpecBuild == InitBuild /\ [][NextBuild]_vars

----------------------------------------------------------------------------
(* Properties of the table builders. *)

\* C21: every row of the standardized discharge table comes from a raw
\* discharge record whose outcome was death and whose principal diagnosis
\* is in the diagnosis set J12-J18, for every raw batch, the batches without
\* the death-outcome column included.
C21_OnlyPneumoniaDeaths ==
    fn \in {"_process_sih_dataframe", "load_sih_data"} =>
        \A i \in DOMAIN ret.rows :
            LET r == arg.rows[ret.rows[i].idx + 1]
            IN  /\ to_numeric(r.MORTE) = Number(1)
                /\ StartsWithJ12to8(StrUpper(AsTypeStr(r.DIAG_PRINC)))

\* C22: every row of the standardized death table has a 3-character
\* diagnosis code that is one of J12 ... J18 in upper case, whatever the case
\* or trailing characters of the raw cause code that passed the filter.
C22_Cid3InDiagnosisSet ==
    fn = "_process_sim_dataframe" =>
        \A i \in DOMAIN ret.rows :
            ret.rows[i].cid3 \in {"J12", "J13", "J14", "J15", "J16", "J17", "J18"}

\* A death row built from a raw cause code in lower case.
C22_Witness ==
    /\ fn = "_process_sim_dataframe"
    /\ \E i \in DOMAIN ret.rows :
           /\ arg.rows[ret.rows[i].idx + 1].CAUSABAS = <<"j", "1", "5">>
           /\ ret.rows[i].cid3 = "J15"

\* C23: when a raw batch lacks a required column (the cause of death for
\* death records, the principal diagnosis for discharge records), the table
\* builder returns an empty table for the batch and raises no error.
C23_MissingColumnGivesEmptyTable ==
    /\ fn = "_process_sim_dataframe" /\ "CAUSABAS" \notin arg.columns =>
           ret.raised = "none" /\ ret.rows = <<>>
    /\ fn = "_process_sih_dataframe" /\ "DIAG_PRINC" \notin arg.columns =>
           ret.raised = "none" /\ ret.rows = <<>>

\* A death batch with records and no cause column went through the builder.
C23_Witness ==
    /\ fn = "_process_sim_dataframe"
    /\ "CAUSABAS" \notin arg.columns
    /\ arg.rows # <<>>
    /\ ret = NoTable

----------------------------------------------------------------------------
(* The batch body of RealPneumoniaAnalysisPipeline.load_sim_data. *)

\* pd.to_datetime(df['DTOBITO'], format='%d%m%Y', errors='coerce') on the raw
\* value: nothing is stripped.
Real_to_datetime_dmy(x) ==
    IF \A k \in DOMAIN AsTypeStr(x) : IsDigit(AsTypeStr(x)[k])
    THEN ParseDmY(AsTypeStr(x)) ELSE NaT

\* The age in tenths of a year of a coded IDADE: str(idade).zfill(3), the
\* first digit the unit (0, 4, 9 years; 1 months; 2 days; 3, 5 hours and
\* seconds), the rest the value; null for a missing or malformed code.
DecodeIdade(x) ==
    IF x.type = "missing" THEN NaN
    ELSE LET t == IF Len(ValueText(x)) >= 3 THEN ValueText(x)
                  ELSE [k \in 1..(3 - Len(ValueText(x))) |-> "0"] \o ValueText(x)
         IN  IF \E k \in DOMAIN t : ~IsDigit(t[k]) THEN NaN
             ELSE LET tipo  == TextInt(<<t[1]>>)
                      valor == TextInt(Tail(t))
                  IN  IF tipo \in {0, 4, 9} THEN valor * 10
                      ELSE IF tipo = 1 THEN (valor * 10) \div 12
                      ELSE IF tipo = 2 THEN (valor * 40) \div 1461
                      ELSE IF tipo \in {3, 5} THEN 0
                      ELSE NaN

\* RealPneumoniaAnalysisPipeline._process_sim_dataframe on record k.
RealSimResultRow(df, year, k) ==
    LET r      == df.rows[k]
        hasMun == "CODMUNRES" \in df.columns
        hasDt  == "DTOBITO" \in df.columns
        idade  == IF "IDADE" \in df.columns THEN DecodeIdade(r.IDADE) ELSE NaN
    IN  [idx          |-> k - 1,
         mun6         |-> IF hasMun THEN JoinText(Real_mun6(r.CODMUNRES)) ELSE NA,
         ano          |-> IF hasMun THEN year ELSE NaN,
         uf           |-> IF hasMun THEN df.uf ELSE NA,
         data_obito   |-> IF hasDt THEN Real_to_datetime_dmy(r.DTOBITO) ELSE NaT,
         sexo         |-> IF "SEXO" \in df.columns
                          THEN (IF MapCodes(r.SEXO, 1, 2) # NA
                                THEN MapCodes(r.SEXO, 1, 2) ELSE "I")
                          ELSE IF hasMun \/ hasDt THEN "I" ELSE NA,
         idade_anos   |-> idade,
         escolaridade |-> IF "ESC" \in df.columns THEN NumOrNaN(r.ESC) ELSE NaN,
         cid3         |-> extract_cid3(r.CAUSABAS),
         faixa_etaria |-> age_to_group(idade)]

\* The body of one batch of load_sim_data from the decoded frame on: the
\* filter and _process_sim_dataframe.  A batch without CAUSABAS or without
\* pneumonia deaths appends nothing.
Real_process_sim_batch(df, year) ==
    LET kept == SelectSeq([k \in DOMAIN df.rows |-> k],
                          LAMBDA k : mask_pne(df.rows[k].CAUSABAS))
    IN  IF "CAUSABAS" \notin df.columns THEN NoTable
        ELSE IF kept = <<>> THEN NoTable
        ELSE [raised  |-> "none",
              columns |-> ResultColumnsSim \cup {"uf"},
              rows    |-> [i \in DOMAIN kept |-> RealSimResultRow(df, year, kept[i])]]

----------------------------------------------------------------------------
(* The (UF, year) batch loops of the loaders:
   SIMProcessor.load_pneumonia_deaths, SIHProcessor.load_pneumonia_deaths and
   RealPneumoniaAnalysisPipeline.load_sim_data.  A batch is what the registry
   answers for one (UF, year): the step at which an exception is raised, if
   any, whether get_files found files, and the decoded frame. *)

\* Largest number of (UF, year) batches of a load.
MaxBatches == 3

Loaders == {"sim", "sih", "real_sim"}

\* Where a batch raises: nowhere, in get_files, in the download, in the
\* decoding of the files, in the processing of the frame.
Faults == {"none", "get_files", "download", "decode", "process"}

Frame(columns, rows) == [columns |-> columns, rows |-> rows, year |-> 2022, uf |-> "MG"]

\* The decoded frames of the batches of a death load: no record, records
\* without cause column, a pneumonia death, two records of which one
\* passes the filter.
DeathFrames ==
    { Frame(SimColumns, <<>>),
      Frame(SimColumns \ {"CAUSABAS"}, <<DeathJ189>>),
      Frame(SimColumns, <<DeathJ189>>),
      Frame(SimColumns, <<DeathA09, DeathLowerJ15>>) }

DischargeFrames ==
    { Frame(SihColumns, <<>>),
      Frame(SihColumns \ {"DIAG_PRINC"}, <<DischargeDeathJ189>>),
      Frame(SihColumns, <<DischargeDeathJ189>>),
      Frame(SihColumns, <<DischargeDeathA09, DischargeTexts>>) }

FramesOf(loader) == IF loader = "sih" THEN DischargeFrames ELSE DeathFrames

\* The batches of a loader: every frame without fault, and one batch for
\* each fault and one without files (their frame is never reached or never
\* finished).
BatchesOf(loader) ==
    { [fault |-> "none", files |-> TRUE, df |-> f] : f \in FramesOf(loader) }
    \cup { [fault |-> x, files |-> TRUE, df |-> f] :
              x \in Faults \ {"none"},
              f \in {g \in FramesOf(loader) : Len(g.rows) = 2} }
    \cup { [fault |-> "none", files |-> FALSE, df |-> f] :
              f \in {g \in FramesOf(loader) : Len(g.rows) = 2} }

LoadArgs ==
    UNION { { [kind |-> "load", loader |-> l, batches |-> b] :
                b \in SeqsUpTo(BatchesOf(l), MaxBatches) } : l \in Loaders }

\* frames after one pass of the loop body of SIMProcessor.load_pneumonia_deaths
\* on batch b; every exception is caught and the loop continues.
AfterSimBatch(fr, b) ==
    IF b.fault = "get_files" THEN fr
    ELSE IF ~b.files THEN fr
    ELSE IF b.fault = "download" THEN fr
    ELSE IF b.df.rows = <<>> THEN fr
    ELSE IF b.fault \in {"decode", "process"} THEN fr
    ELSE IF _process_sim_dataframe(b.df, b.df.year).rows # <<>>
    THEN Append(fr, _process_sim_dataframe(b.df, b.df.year))
    ELSE fr

\* The same for SIHProcessor.load_pneumonia_deaths, where download_to_df
\* decodes the files.
AfterSihBatch(fr, b) ==
    IF b.fault = "get_files" THEN fr
    ELSE IF ~b.files THEN fr
    ELSE IF b.fault \in {"download", "decode"} THEN fr
    ELSE IF b.df.rows = <<>> THEN fr
    ELSE IF b.fault = "process" THEN fr
    ELSE IF _process_sih_dataframe(b.df, b.df.year).rows # <<>>
    THEN Append(fr, _process_sih_dataframe(b.df, b.df.year))
    ELSE fr

\* The same for RealPneumoniaAnalysisPipeline.load_sim_data: the decoding and
\* the processing run in an inner try, whose handler continues as well.
AfterRealSimBatch(fr, b) ==
    IF b.fault = "get_files" THEN fr
    ELSE IF ~b.files THEN fr
    ELSE IF b.fault = "download" THEN fr
    ELSE IF b.fault \in {"decode", "process"} THEN fr
    ELSE IF Real_process_sim_batch(b.df, b.df.year).rows # <<>>
    THEN Append(fr, Real_process_sim_batch(b.df, b.df.year))
    ELSE fr

\* AfterBatch with a handler that gives up the frames gathered so far.
AfterBatchAbandoning(loader, fr, b) ==
    IF b.fault # "none" THEN <<>>
    ELSE IF loader = "sim" THEN AfterSimBatch(fr, b)
    ELSE IF loader = "sih" THEN AfterSihBatch(fr, b)
    ELSE AfterRealSimBatch(fr, b)

AfterBatch(loader, fr, b) ==
    IF loader = "sim" THEN AfterSimBatch(fr, b)
    ELSE IF loader = "sih" THEN AfterSihBatch(fr, b)
    ELSE AfterRealSimBatch(fr, b)

\* The columns of the table a loader returns when no batch gave a frame.
StandardColumns(loader) ==
    IF loader = "sim" THEN ResultColumnsSim
    ELSE IF loader = "sih" THEN ResultColumnsSih
    ELSE ResultColumnsSim \cup {"uf"}

\* pd.concat(frames, ignore_index=True): the rows of the frames in order,
\* renumbered from 0.
Concat(fr) ==
    LET rows == Flatten([k \in DOMAIN fr |-> fr[k].rows])
    IN  [raised  |-> "none",
         columns |-> UNION {fr[k].columns : k \in DOMAIN fr},
         rows    |-> [i \in DOMAIN rows |-> [rows[i] EXCEPT !.idx = i - 1]]]

\* What the loader returns after the loop.
Loaded(loader, fr) ==
    IF fr # <<>> THEN Concat(fr)
    ELSE [raised |-> "none", columns |-> StandardColumns(loader), rows |-> <<>>]

\* frames = []
StartLoad ==
    /\ fn = "none"
    /\ arg.kind = "load"
    /\ fn' = "loading"
    /\ frames' = <<>>
    /\ batch' = 1
    /\ UNCHANGED <<sim_data, sih_data, pc, A, B, candidate_pairs, features,
                   classifier, matches, outcome, linkage_result, metrics, pipeline,
                   population_data, mortality_rates, rates_outcome, arg, ret,
                   death_profiles>>

\* One pass of the loop body, on the next (UF, year).
LoadBatch ==
    /\ fn = "loading"
    /\ batch <= Len(arg.batches)
    /\ frames' = AfterBatch(arg.loader, frames, arg.batches[batch])
    /\ batch' = batch + 1
    /\ UNCHANGED <<sim_data, sih_data, pc, A, B, candidate_pairs, features,
                   classifier, matches, outcome, linkage_result, metrics, pipeline,
                   population_data, mortality_rates, rates_outcome, arg, fn, ret,
                   death_profiles>>

\* The loop is over: the loader returns.
ReturnLoaded ==
    /\ fn = "loading"
    /\ batch > Len(arg.batches)
    /\ fn' = IF arg.loader = "real_sim" THEN "load_sim_data"
             ELSE "load_pneumonia_deaths"
    /\ ret' = Loaded(arg.loader, frames)
    /\ UNCHANGED <<sim_data, sih_data, pc, A, B, candidate_pairs, features,
                   classifier, matches, outcome, linkage_result, metrics, pipeline,
                   population_data, mortality_rates, rates_outcome, arg, frames,
                   batch, death_profiles>>

InitLoad ==
    /\ arg \in LoadArgs
    /\ fn = "none"
    /\ ret = NoRet
    /\ sim_data = EmptyLoaderTable
    /\ sih_data = EmptyLoaderTable
    /\ pc = "start"
    /\ A = NoRun.A
    /\ B = NoRun.B
    /\ candidate_pairs = NoRun.candidate_pairs
    /\ features = NoRun.features
    /\ classifier = NoRun.classifier
    /\ matches = NoRun.matches
    /\ outcome = NoRun.outcome
    /\ linkage_result = NoRun.linkage_result
    /\ metrics = NoMetrics
    /\ pipeline = "package"
    /\ population_data = <<>>
    /\ mortality_rates = <<>>
    /\ rates_outcome = "pending"
    /\ frames = <<>>
    /\ batch = 0
    /\ death_profiles = NoProfiles

NextLoad == StartLoad \/ LoadBatch \/ ReturnLoaded

SpecLoad == InitLoad /\ [][NextLoad]_vars

----------------------------------------------------------------------------
(* Properties of the batch loops. *)

\* The table a batch yields when nothing fails: the output of the loader's
\* table builder on its frame.
OutputOf(loader, b) ==
    IF loader = "sim" THEN _process_sim_dataframe(b.df, b.df.year)
    ELSE IF loader = "sih" THEN _process_sih_dataframe(b.df, b.df.year)
    ELSE Real_process_sim_batch(b.df, b.df.year)

\* A successful non-empty batch: no exception, files found, rows yielded.
Successful(loader, b) ==
    b.fault = "none" /\ b.files /\ OutputOf(loader, b).rows # <<>>

\* The outputs of the successful non-empty batches of bs, in order.
OutputsOf(loader, bs) ==
    LET ok == SelectSeq([k \in DOMAIN bs |-> k],
                        LAMBDA k : Successful(loader, bs[k]))
    IN  [i \in DOMAIN ok |-> OutputOf(loader, bs[ok[i]])]

Unnumbered(rows) == [i \in DOMAIN rows |-> [rows[i] EXCEPT !.idx = 0]]

\* C27: in the (UF, year) batch loops of the loaders a batch that fails, has
\* no files or yields an empty table is skipped without raising: the frames
\* gathered before it stay as they are, the batches after it are processed,
\* and the table returned is the concatenation, in iteration order, of the
\* outputs of exactly the successful non-empty batches, or the empty table
\* with the standard columns when there is none.
C27_FailedBatchesSkipped ==
    /\ fn = "loading" =>
           frames = OutputsOf(arg.loader, SubSeq(arg.batches, 1, batch - 1))
    /\ fn \in {"load_pneumonia_deaths", "load_sim_data"} =>
           LET out == OutputsOf(arg.loader, arg.batches)
           IN  /\ ret.raised = "none"
               /\ Unnumbered(ret.rows)
                      = Unnumbered(Flatten([k \in DOMAIN out |-> out[k].rows]))
               /\ out = <<>> =>
                      ret.rows = <<>> /\ ret.columns = StandardColumns(arg.loader)

\* A load returned the rows of its first and third batch after the second
\* raised.
C27_Witness ==
    /\ fn \in {"load_pneumonia_deaths", "load_sim_data"}
    /\ Len(arg.batches) = 3
    /\ Successful(arg.loader, arg.batches[1])
    /\ arg.batches[2].fault # "none"
    /\ Successful(arg.loader, arg.batches[3])
    /\ Len(ret.rows) = Len(OutputOf(arg.loader, arg.batches[1]).rows)
                          + Len(OutputOf(arg.loader, arg.batches[3]).rows)

----------------------------------------------------------------------------
(* The death profiles: SIMProcessor.get_death_profiles and
   RealPneumoniaAnalysisPipeline.get_death_profiles, on the death table a
   loader returned. *)

\* The rows a death loader can return: what the table builder of the
\* pipeline makes of one raw death, from a batch with all columns or from
\* one without the municipality column.
LoadedDeathRows(pl) ==
    UNION { LET t == IF pl = "package"
                     THEN _process_sim_dataframe(Frame(c, <<d>>), y)
                     ELSE Real_process_sim_batch(Frame(c, <<d>>), y)
            IN  {t.rows[k] : k \in DOMAIN t.rows} :
                d \in RawDeaths, y \in Years,
                c \in {SimColumns, SimColumns \ {"CODMUNRES"}} }

\* A loaded table: the rows renumbered from 0 (ignore_index=True), or the
\* empty table with the standard columns.
LoadedTables(pl, Rows, n) ==
    { [columns    |-> IF pl = "package" THEN ResultColumnsSim
                      ELSE ResultColumnsSim \cup {"uf"},
       rows       |-> [i \in DOMAIN s |-> [s[i] EXCEPT !.idx = i - 1]],
       date_dtype |-> IF s = <<>> THEN "object" ELSE "datetime64[ns]"] :
        s \in SeqsUpTo(Rows, n) }

\* A null in a column of the death table: NaN in a numeric column, <NA> in
\* another.
IsNull(col, v) == IF col \in {"ano", "escolaridade"} THEN v = NaN ELSE v = NA

\* groupby(["ano", col]).size() with the default dropna=True: the rows with
\* a null key are left out.
GroupSizeDropNa(rows, col) ==
    LET keyed == {i \in DOMAIN rows :
                     ~IsNull("ano", rows[i].ano) /\ ~IsNull(col, rows[i][col])}
    IN  { [ano    |-> rows[i].ano,
           value  |-> rows[i][col],
           obitos |-> Cardinality({j \in keyed :
                          rows[j].ano = rows[i].ano /\ rows[j][col] = rows[i][col]})] :
          i \in keyed }

\* df.groupby(["ano", col], dropna=False).size().rename("obitos")
\* .reset_index(): one row per (year, value) of the table, nulls included,
\* with the number of records of the group.  The table is held as the set
\* of its rows; the groups without records that a categorical column adds
\* with count 0 are left out.
GroupSize(rows, col) ==
    { [ano    |-> rows[i].ano,
       value  |-> rows[i][col],
       obitos |-> Cardinality({j \in DOMAIN rows :
                      rows[j].ano = rows[i].ano /\ rows[j][col] = rows[i][col]})] :
      i \in DOMAIN rows }

\* The column of the death table behind each profile.
ProfileColumn(dim) ==
    IF dim = "idade" THEN "faixa_etaria" ELSE dim

\* SIMProcessor.get_death_profiles: a profile for each of the three columns
\* the table has.
get_death_profiles(df) ==
    [dim \in {d \in {"idade", "sexo", "escolaridade"} :
                 ProfileColumn(d) \in df.columns} |->
        GroupSize(df.rows, ProfileColumn(dim))]

\* RealPneumoniaAnalysisPipeline.get_death_profiles: the three profiles of
\* self.sim_data.
Real_get_death_profiles(df) ==
    [dim \in {"idade", "sexo", "escolaridade"} |->
        GroupSize(df.rows, ProfileColumn(dim))]

GetDeathProfiles ==
    /\ pc = "start"
    /\ pipeline = "package"
    /\ death_profiles' = get_death_profiles(sim_data)
    /\ pc' = "profiled"
    /\ UNCHANGED <<sim_data, sih_data, A, B, candidate_pairs, features, classifier,
                   matches, outcome, linkage_result, metrics, pipeline,
                   population_data, mortality_rates, rates_outcome, arg, fn, ret,
                   frames, batch>>

RealGetDeathProfiles ==
    /\ pc = "start"
    /\ pipeline = "real"
    /\ death_profiles' = Real_get_death_profiles(sim_data)
    /\ pc' = "profiled"
    /\ UNCHANGED <<sim_data, sih_data, A, B, candidate_pairs, features, classifier,
                   matches, outcome, linkage_result, metrics, pipeline,
                   population_data, mortality_rates, rates_outcome, arg, fn, ret,
                   frames, batch>>

InitProfiles ==
    /\ pipeline \in {"package", "real"}
    /\ sim_data \in LoadedTables(pipeline, LoadedDeathRows(pipeline), MaxSim)
    /\ sih_data = EmptyLoaderTable
    /\ pc = "start"
    /\ A = NoRun.A
    /\ B = NoRun.B
    /\ candidate_pairs = NoRun.candidate_pairs
    /\ features = NoRun.features
    /\ classifier = NoRun.classifier
    /\ matches = NoRun.matches
    /\ outcome = NoRun.outcome
    /\ linkage_result = NoRun.linkage_result
    /\ metrics = NoMetrics
    /\ population_data = <<>>
    /\ mortality_rates = <<>>
    /\ rates_outcome = "pending"
    /\ arg = NoArg
    /\ fn = "none"
    /\ ret = NoRet
    /\ frames = <<>>
    /\ batch = 0
    /\ death_profiles = NoProfiles

NextProfiles == GetDeathProfiles \/ RealGetDeathProfiles

SpecProfiles == InitProfiles /\ [][NextProfiles]_vars

----------------------------------------------------------------------------
(* Properties of the death profiles. *)

RECURSIVE SumObitos(_)
SumObitos(S) ==
    IF S = {} THEN 0
    ELSE LET p == CHOOSE q \in S : TRUE IN p.obitos + SumObitos(S \ {p})

\* The label the real pipeline gives a missing age.
IsMissingGroup(dim, v) ==
    IsNull(ProfileColumn(dim), v) \/ (dim = "idade" /\ v = "Ignorado")

\* C25: for each profile dimension (age group, sex, education) the death
\* records whose value is missing are counted in a group of their own and
\* not dropped, so for every year the counts of the year's profile rows sum
\* to the number of death records of the year.
C25_ProfilesCountEveryDeath ==
    pc = "profiled" =>
        /\ DOMAIN death_profiles = {"idade", "sexo", "escolaridade"}
        /\ \A dim \in DOMAIN death_profiles :
               /\ \A y \in Years \cup {NaN} :
                      SumObitos({p \in death_profiles[dim] : p.ano = y})
                          = Cardinality({i \in DOMAIN sim_data.rows :
                                            sim_data.rows[i].ano = y})
               /\ \A i \in DOMAIN sim_data.rows :
                      IsMissingGroup(dim, sim_data.rows[i][ProfileColumn(dim)]) =>
                          \E p \in death_profiles[dim] :
                              /\ p.ano = sim_data.rows[i].ano
                              /\ p.value = sim_data.rows[i][ProfileColumn(dim)]
                              /\ p.obitos >= 1

\* Profiles of a table with a death whose age and schooling are missing next
\* to one whose fields are known, in the same year.
C25_Witness ==
    /\ pc = "profiled"
    /\ \E i, j \in DOMAIN sim_data.rows :
           /\ sim_data.rows[i].ano = 2022
           /\ sim_data.rows[j].ano = 2022
           /\ sim_data.rows[i].escolaridade = NaN
           /\ sim_data.rows[j].escolaridade # NaN
    /\ \E p \in death_profiles["escolaridade"] :
           p.ano = 2022 /\ p.value = NaN /\ p.obitos = 1

----------------------------------------------------------------------------
(* run_analysis of PneumoniaAnalysisPipeline and of
   RealPneumoniaAnalysisPipeline.  The three loads are the environment: the
   tables they return are chosen among the tables a loader can return. *)

\* The death rows of the runs: the pneumonia deaths of 2022 in the two
\* municipalities of the model.
RunDeathRows(pl) ==
    { r \in LoadedDeathRows(pl) : r.ano = 2022 /\ r.mun6 \in {"310620", "355030"} }

\* The discharge rows of the runs: one in the block of the first death, one
\* in no block of a death.
RunDischargeRows ==
    { DischargeRow("310620", 2022, 19065, "M", 710, "J18"),
      DischargeRow("310620", 2022, 19066, "F", 700, "J18") }

RunDischargeTables ==
    { [rows       |-> s,
       date_dtype |-> IF s = <<>> THEN "object" ELSE "datetime64[ns]"] :
        s \in SeqsUpTo(RunDischargeRows, MaxSih) }

RunPopulations(pl) == { t \in PopulationTables(pl) : Len(t) <= 1 }

\* get_summary: the record counts and, when the linkage table has rows, the
\* linkage metrics.
get_summary(sim, sih, rates, linkage) ==
    [kind                 |-> "summary",
     obitos_sim           |-> Len(sim.rows),
     altas_sih            |-> Len(sih.rows),
     municipios_com_taxas |-> Len(rates),
     linkage_metrics      |-> IF linkage # <<>>
                              THEN calculate_linkage_metrics(linkage)
                              ELSE NoMetrics]

Raised(exception) == [kind |-> "raised", exception |-> exception]

\* PneumoniaAnalysisPipeline.run_analysis from step 4 on, for one run of the
\* linkage: the rates, the profiles, the linkage, save_results (files only)
\* and the summary.  Nothing catches an exception, so the first one ends the
\* call and the later attributes keep their initial None.
run_analysis(sim, sih, population, link) ==
    LET rates == calculate_mortality_rates(sim, population)
    IN  IF rates.raised # "none"
        THEN [mortality_rates |-> <<>>, rates_outcome |-> rates.raised,
              death_profiles |-> NoProfiles, link |-> NoRun,
              ret |-> Raised(rates.raised)]
        ELSE [mortality_rates |-> rates.rows, rates_outcome |-> "returned",
              death_profiles |-> get_death_profiles(sim), link |-> link,
              ret |-> IF link.outcome # "returned" THEN Raised(link.outcome)
                      ELSE get_summary(sim, sih, rates.rows, link.linkage_result)]

\* RealPneumoniaAnalysisPipeline.run_analysis after the loads: an error
\* record when the death table is empty, else the rates, the profiles,
\* save_results and the summary; there is no linkage.
Real_run_analysis(sim, sih, population) ==
    IF sim.rows = <<>>
    THEN [mortality_rates |-> <<>>, rates_outcome |-> "pending",
          death_profiles |-> NoProfiles,
          ret |-> [kind |-> "erro", erro |-> "Nenhum dado do SIM disponível"]]
    ELSE LET rates == Real_calculate_mortality_rates(sim, population)
         IN  [mortality_rates |-> rates.rows, rates_outcome |-> "returned",
              death_profiles |-> Real_get_death_profiles(sim),
              ret |-> get_summary(sim, sih, rates.rows, <<>>)]

RunAnalysis ==
    /\ pc = "start"
    /\ pipeline = "package"
    /\ \E sim \in LoadedTables("package", RunDeathRows("package"), MaxSim),
          sih \in RunDischargeTables,
          population \in RunPopulations("package") :
          \E link \in LinkRuns(sim, sih) :
              \E run \in {run_analysis(sim, sih, population, link)} :
                  /\ sim_data' = InputAfterLinkage(sim)
                  /\ sih_data' = InputAfterLinkage(sih)
                  /\ population_data' = population
                  /\ mortality_rates' = run.mortality_rates
                  /\ rates_outcome' = run.rates_outcome
                  /\ death_profiles' = run.death_profiles
                  /\ A' = run.link.A
                  /\ B' = run.link.B
                  /\ candidate_pairs' = run.link.candidate_pairs
                  /\ features' = run.link.features
                  /\ classifier' = run.link.classifier
                  /\ matches' = run.link.matches
                  /\ outcome' = run.link.outcome
                  /\ linkage_result' = run.link.linkage_result
                  /\ ret' = run.ret
    /\ fn' = "run_analysis"
    /\ pc' = "done"
    /\ UNCHANGED <<metrics, pipeline, arg, frames, batch>>

RealRunAnalysis ==
    /\ pc = "start"
    /\ pipeline = "real"
    /\ \E sim \in LoadedTables("real", RunDeathRows("real"), MaxSim),
          sih \in RunDischargeTables,
          population \in RunPopulations("real") :
          \E run \in {Real_run_analysis(sim, sih, population)} :
              /\ sim_data' = sim
              /\ sih_data' = sih
              /\ population_data' = population
              /\ mortality_rates' = run.mortality_rates
              /\ rates_outcome' = run.rates_outcome
              /\ death_profiles' = run.death_profiles
              /\ ret' = run.ret
    /\ fn' = "run_analysis"
    /\ pc' = "done"
    /\ UNCHANGED <<A, B, candidate_pairs, features, classifier, matches, outcome,
                   linkage_result, metrics, pipeline, arg, frames, batch>>

\* The pipeline object after __init__: every table is None.
InitRun ==
    /\ pipeline \in {"package", "real"}
    /\ sim_data = EmptyLoaderTable
    /\ sih_data = EmptyLoaderTable
    /\ population_data = <<>>
    /\ pc = "start"
    /\ A = NoRun.A
    /\ B = NoRun.B
    /\ candidate_pairs = NoRun.candidate_pairs
    /\ features = NoRun.features
    /\ classifier = NoRun.classifier
    /\ matches = NoRun.matches
    /\ outcome = NoRun.outcome
    /\ linkage_result = NoRun.linkage_result
    /\ metrics = NoMetrics
    /\ mortality_rates = <<>>
    /\ rates_outcome = "pending"
    /\ arg = NoArg
    /\ fn = "none"
    /\ ret = NoRet
    /\ frames = <<>>
    /\ batch = 0
    /\ death_profiles = NoProfiles

NextRun == RunAnalysis \/ RealRunAnalysis

SpecRun == InitRun /\ [][NextRun]_vars

----------------------------------------------------------------------------
(* Properties of run_analysis. *)

\* C24: run_analysis always ends by returning a summary with the record
\* counts of both sources and raises no error, for every combination of
\* empty and non-empty death, discharge and population tables.
C24_AlwaysReturnsSummary ==
    fn = "run_analysis" =>
        /\ ret.kind = "summary"
        /\ ret.obitos_sim = Len(sim_data.rows)
        /\ ret.altas_sih = Len(sih_data.rows)

----------------------------------------------------------------------------
(* The frame of link_sim_sih. *)

----------------------------------------------------------------------------
(* The shape of the rate table. *)

\* The death counts of the rows of a rate table, added up.
RECURSIVE SumDeathCounts(_)
SumDeathCounts(rates) ==
    IF rates = <<>> THEN 0
    ELSE Head(rates).obitos_pneumonia + SumDeathCounts(Tail(rates))

\* C29: the rate table of the package pipeline has exactly one row per
\* distinct key (municipality, year) of the death records with a municipality
\* (and a year), and the death counts of its rows add up to the number of
\* these death records, whatever the population table is, one with several
\* entries for the same (municipality, year) included.
C29_OneRowPerKey ==
    (pc = "rated" /\ pipeline = "package" /\ rates_outcome = "returned") =>
        LET keyed == {n \in DOMAIN sim_data.rows : Enters(sim_data.rows[n])}
            keys  == {<<sim_data.rows[n].mun6, sim_data.rows[n].ano>> : n \in keyed}
        IN  /\ Len(mortality_rates) = Cardinality(keys)
            /\ \A key \in keys :
                   Cardinality({k \in DOMAIN mortality_rates :
                                   /\ mortality_rates[k].mun6 = key[1]
                                   /\ mortality_rates[k].ano = key[2]}) = 1
            /\ SumDeathCounts(mortality_rates) = Cardinality(keyed)

\* The same property for the population tables that hold at most one entry
\* per (municipality, year).
C29_HoldsWithoutDuplicateEntries ==
    (\A i, j \in DOMAIN population_data :
         (/\ population_data[i].mun6 = population_data[j].mun6
          /\ population_data[i].ano = population_data[j].ano) => i = j)
        => C29_OneRowPerKey

====
